---- MODULE Spec2Model ----
(***************************************************************************)
(* Model of the simple random tuner (the Kokkos tuning tool built as       *)
(* libsimple-tuner): the registry of Variables and Contexts and the        *)
(* kokkosp_* callbacks that drive them.                                    *)
(*                                                                         *)
(* Conventions                                                             *)
(*   - a std::string / char array is a sequence of one-character strings;  *)
(*   - a double is a fixed-point integer counting hundredths (0.8 is 80);  *)
(*   - a member that the constructor leaves without a value is the empty   *)
(*     sequence <<>>, a member holding x is <<x>>;                         *)
(*   - a value of the union Kokkos_Tools_VariableValue_ValueUnion is the   *)
(*     record [t, n, s]: the arm last written (t), its number (n) or its   *)
(*     characters (s); t = "indeterminate" is a union nobody has written.  *)
(***************************************************************************)
EXTENDS Integers, Sequences, FiniteSets, TLC

VARIABLES
    variables,   \* std::map<size_t,Variable*> variables
    contexts,    \* std::map<size_t,Context*> contexts
    now,         \* the reading of std::chrono::high_resolution_clock
    steps,       \* what the step just taken called, in program order
    heap,        \* number of objects allocated with `new` so far
    crashed,     \* the process was killed by a fault
    sampledIn,   \* history: per open context, the value its request sampled per id
    bestFrom,    \* history: per variable id, the sample of the context that set best_time
    trace,       \* history of the scoring harness (SpecScore)
    verbose,     \* void_stream's static `verbose`: KOKKOS_VERBOSE is set
    out,         \* the lines the step just taken wrote through mylog()
    twin,        \* the registry of a second process given the same calls
    pending,     \* the call the second process has still to be given
    threads,     \* the host threads inside a callback, and where they are
    host         \* the driver's own state: position, loop counter, statics

vars == <<variables, contexts, now, steps, heap, crashed,
          sampledIn, bestFrom, trace>>

(* what only the runs with two processes or two threads use *)
aux == <<verbose, out, twin, pending, threads, host>>

-----------------------------------------------------------------------------
(* Bounds of the exploration *)

MaxHeap == 3
MaxTime == 1
MaxRand == 1
MaxTrace == 4

(* Program constants: the initial best_time, and the size of a
   Kokkos_Tools_Tuning_String (fixed by the Kokkos tools interface header) *)

INT_MAX == 2147483647
KOKKOS_TOOLS_TUNING_STRING_LENGTH == 64

(* the ids the host uses for variables and for contexts *)
VarIds == {1, 2}
CtxIds == {1, 2}
(* rand() returns 0..RAND_MAX *)
RAND_MAX == MaxRand
Rand == 0..RAND_MAX

-----------------------------------------------------------------------------
(* Values *)

IntValue(n) == [t |-> "int64", n |-> n, s |-> <<>>]
DoubleValue(n) == [t |-> "double", n |-> n, s |-> <<>>]
StringValue(s) == [t |-> "string", n |-> 0, s |-> s]
Indeterminate == [t |-> "indeterminate", n |-> 0, s |-> <<>>]

(* What an int64 read of memory nobody wrote can yield. *)
GarbageInts == {-1, 7}

Min(a, b) == IF a < b THEN a ELSE b

Range(f) == {f[i] : i \in DOMAIN f}

-----------------------------------------------------------------------------
(* std::to_string and atol, character by character *)

Digits == <<"0", "1", "2", "3", "4", "5", "6", "7", "8", "9">>

IsDigit(c) == \E d \in 1..10 : Digits[d] = c

DigitOf(c) == (CHOOSE d \in 1..10 : Digits[d] = c) - 1

RECURSIVE natToString(_)
natToString(n) ==
    IF n < 10 THEN <<Digits[n + 1]>>
    ELSE natToString(n \div 10) \o <<Digits[(n % 10) + 1]>>

(* std::to_string(int64_t): "%ld" *)
to_string_int(n) ==
    IF n < 0 THEN <<"-">> \o natToString(-n) ELSE natToString(n)

(* std::to_string(double): "%f", six decimals; the model's doubles have two *)
to_string_double(x) ==
    LET a == IF x < 0 THEN -x ELSE x
        frac == a % 100
    IN (IF x < 0 THEN <<"-">> ELSE <<>>)
       \o natToString(a \div 100) \o <<".">>
       \o <<Digits[(frac \div 10) + 1], Digits[(frac % 10) + 1]>>
       \o <<"0", "0", "0", "0">>

RECURSIVE digitsValue(_, _, _)
digitsValue(s, i, acc) ==
    IF i > Len(s) \/ ~IsDigit(s[i]) THEN acc
    ELSE digitsValue(s, i + 1, acc * 10 + DigitOf(s[i]))

RECURSIVE skipSpace(_, _)
skipSpace(s, i) ==
    IF i <= Len(s) /\ s[i] = " " THEN skipSpace(s, i + 1) ELSE i

(* atol: leading blanks, an optional sign, then digits up to the first
   character that is none; 0 when there is no digit *)
atol(s) ==
    LET i == skipSpace(s, 1)
    IN IF i <= Len(s) /\ s[i] = "-" THEN -digitsValue(s, i + 1, 0)
       ELSE IF i <= Len(s) /\ s[i] = "+" THEN digitsValue(s, i + 1, 0)
       ELSE digitsValue(s, i, 0)

(* strncpy(dst, src, KOKKOS_TOOLS_TUNING_STRING_LENGTH) *)
strncpy(src) == SubSeq(src, 1, Min(Len(src), KOKKOS_TOOLS_TUNING_STRING_LENGTH))

-----------------------------------------------------------------------------
(* Kokkos_Tools_VariableInfo *)

ValueTypes == {"int64", "double", "string"}
Categories == {"categorical", "ordinal", "interval", "ratio"}
Quantities == {"set", "range", "unbounded"}

(* The candidates union: a set {size, values} or a range {lower, upper, step,
   openLower, openUpper}; written = FALSE is a union nobody has filled in. *)
SetCandidates(values) == [written |-> TRUE, values |-> values, range |-> <<>>]
RangeCandidates(lower, upper, step, openLower, openUpper) ==
    [written |-> TRUE, values |-> <<>>,
     range |-> <<[lower |-> lower, upper |-> upper, step |-> step,
                  openLower |-> openLower, openUpper |-> openUpper]>>]
NoCandidates == [written |-> FALSE, values |-> <<>>, range |-> <<>>]

VariableInfo(type, category, quantity, candidates) ==
    [type |-> type, category |-> category, valueQuantity |-> quantity,
     candidates |-> candidates]

-----------------------------------------------------------------------------
(* class Variable *)

(* Variable::deepCopy: the candidates are copied for a set of any category
   and for a range of category interval or ratio, and for nothing else. *)
deepCopy(_info) ==
    LET copied ==
          \/ _info.valueQuantity = "set"
          \/ /\ _info.valueQuantity = "range"
             /\ _info.category \in {"interval", "ratio"}
             /\ _info.type \in {"double", "int64"}
        flags == _info.valueQuantity = "range"
                   /\ _info.category \in {"interval", "ratio"}
    IN [type |-> _info.type,
        category |-> _info.category,
        valueQuantity |-> _info.valueQuantity,
        candidates |-> IF copied \/ flags THEN _info.candidates ELSE NoCandidates]

(* Variable::Variable: id, name, output and the copied info are set and
   best_time = INT_MAX; the vectors start empty; dmin, dmax, dstep, lmin,
   lmax, lstep, lastValue and bestValue get no value. *)
NewVariable(_id, _name, _info, isOutput) ==
    [id |-> _id, name |-> _name, output |-> isOutput,
     info |-> deepCopy(_info),
     space |-> <<>>,
     dmin |-> <<>>, dmax |-> <<>>, dstep |-> <<>>,
     lmin |-> <<>>, lmax |-> <<>>, lstep |-> <<>>,
     bins |-> <<>>,
     best_time |-> INT_MAX,
     lastValue |-> Indeterminate,
     bestValue |-> Indeterminate]

(* a loop that skips a value equal to the one before it (a variant the
   enumeration of a set is tried against) *)
setSpaceDistinct(info) ==
    LET vals == info.candidates.values
        kept == SelectSeq([i \in DOMAIN vals |-> i],
                          LAMBDA i : i = 1 \/ vals[i] # vals[i - 1])
    IN [k \in DOMAIN kept |->
          IF info.type = "double" THEN to_string_double(vals[kept[k]])
          ELSE IF info.type = "int64" THEN to_string_int(vals[kept[k]])
          ELSE vals[kept[k]]]

(* The loop of makeSpace over info.candidates.set: one string per value. *)
setSpace(info) ==
    [index \in 1..Len(info.candidates.values) |->
        IF info.type = "double" THEN to_string_double(info.candidates.values[index])
        ELSE IF info.type = "int64" THEN to_string_int(info.candidates.values[index])
        ELSE info.candidates.values[index]]

(* a makeSpace that moves both bounds of a range by one step whatever the
   flags say (a variant the effective bounds are tried against) *)
makeSpaceAlwaysOpen(v) ==
    IF v.info.valueQuantity = "range" /\ v.info.category \in {"interval", "ratio"}
    THEN LET rng == v.info.candidates.range[1]
         IN IF v.info.type = "double"
            THEN [v EXCEPT !.dstep = <<rng.step>>,
                           !.dmin = <<rng.lower + rng.step>>,
                           !.dmax = <<rng.upper - rng.step>>]
            ELSE IF v.info.type = "int64"
            THEN [v EXCEPT !.lstep = <<rng.step>>,
                           !.lmin = <<rng.lower + rng.step>>,
                           !.lmax = <<rng.upper - rng.step>>]
            ELSE v
    ELSE v

(* a makeSpace that enumerates a set only for the categories interval and
   ratio (a variant the independence of the category is tried against) *)
makeSpaceContinuous(v) ==
    IF v.info.category \in {"interval", "ratio"} /\ v.info.valueQuantity = "set"
    THEN [v EXCEPT !.space = v.space \o setSpace(v.info)]
    ELSE v

(* Variable::makeSpace *)
makeSpace(v) ==
    LET info == v.info
        rng == info.candidates.range[1]
    IN IF info.category \in {"categorical", "ordinal"}
       THEN IF info.valueQuantity = "set"
            THEN [v EXCEPT !.space = v.space \o setSpace(info)]
            ELSE v
       ELSE IF info.valueQuantity = "range"
            THEN IF info.type = "double"
                 THEN [v EXCEPT
                         !.dstep = <<rng.step>>,
                         !.dmin = <<IF rng.openLower THEN rng.lower + rng.step
                                    ELSE rng.lower>>,
                         !.dmax = <<IF rng.openUpper THEN rng.upper - rng.step
                                    ELSE rng.upper>>]
                 ELSE IF info.type = "int64"
                 THEN [v EXCEPT
                         !.lstep = <<rng.step>>,
                         !.lmin = <<IF rng.openLower THEN rng.lower + rng.step
                                    ELSE rng.lower>>,
                         !.lmax = <<IF rng.openUpper THEN rng.upper - rng.step
                                    ELSE rng.upper>>]
                 ELSE v
            ELSE IF info.valueQuantity = "set"
            THEN [v EXCEPT !.space = v.space \o setSpace(info)]
            ELSE v

(* One call of assignNewValue consumes one draw d:
     d.r     the result of rand()
     d.trap  whether a division by zero raises the fault or goes on
     d.g     what a read of memory nobody wrote yields *)
NoFault(value) == [fault |-> FALSE, value |-> value]
Fault == [fault |-> TRUE, value |-> Indeterminate]

(* Variable::newRandomInt: rand() % space.size() is undefined for an empty
   space: the division traps, or an index outside the vector is read. *)
newRandomInt(v, d) ==
    LET max == Len(v.space)
    IN IF max = 0
       THEN IF d.trap THEN Fault ELSE NoFault(IntValue(d.g))
       ELSE NoFault(IntValue(atol(v.space[(d.r % max) + 1])))

(* a sampling between the declared bounds instead of the effective ones (a
   variant the properties of a double range are tried against) *)
newRandomDoubleDeclared(v, d) ==
    IF v.info.candidates.range = <<>>
    THEN NoFault(DoubleValue(d.g))
    ELSE LET rng == v.info.candidates.range[1]
         IN NoFault(DoubleValue(rng.lower + (((rng.upper - rng.lower) * d.r) \div RAND_MAX)))

(* Variable::newRandomDouble: dmin + (dmax - dmin) * (rand() / RAND_MAX);
   dmin and dmax hold a value only after makeSpace saw a double range. *)
newRandomDouble(v, d) ==
    IF v.dmin = <<>> \/ v.dmax = <<>>
    THEN NoFault(DoubleValue(d.g))
    ELSE LET range == v.dmax[1] - v.dmin[1]
         IN NoFault(DoubleValue(v.dmin[1] + ((range * d.r) \div RAND_MAX)))

(* Variable::newRandomString *)
newRandomString(v, d) ==
    LET max == Len(v.space)
    IN IF max = 0
       THEN IF d.trap THEN Fault ELSE NoFault(StringValue(<<>>))
       ELSE NoFault(StringValue(v.space[(d.r % max) + 1]))

(* Whether assignNewValue on v reads anything undefined (then d.trap and d.g
   matter). *)
ReadsUndefined(v, type) ==
    IF type = "double" THEN v.dmin = <<>> \/ v.dmax = <<>>
    ELSE Len(v.space) = 0

(* A sampling routine that leaves lastValue as it was (a variant the
   properties of kokkosp_request_values are tried against). *)
assignNewValueStale(v, type, d) ==
    LET res == IF type = "double" THEN newRandomDouble(v, d)
               ELSE IF type = "int64" THEN newRandomInt(v, d)
               ELSE newRandomString(v, d)
    IN [fault |-> res.fault, value |-> res.value, last |-> v.lastValue]

(* A sampling routine that calls rand() once more when it logs (a variant
   the verbosity switch is tried against). *)
assignNewValueChatty(v, type, d) ==
    LET d1 == IF verbose THEN [d EXCEPT !.r = (d.r + 1) % (RAND_MAX + 1)] ELSE d
        res == IF type = "double" THEN newRandomDouble(v, d1)
               ELSE IF type = "int64" THEN newRandomInt(v, d1)
               ELSE newRandomString(v, d1)
    IN [fault |-> res.fault, value |-> res.value, last |-> res.value]

(* Variable::assignNewValue(var), chosen by var.metadata->type: `value` is
   what is written to var.value, `last` what is then copied from var.value
   to lastValue. *)
assignNewValue(v, type, d) ==
    IF type = "double"
    THEN LET res == newRandomDouble(v, d)
         IN [fault |-> res.fault, value |-> res.value, last |-> res.value]
    ELSE IF type = "int64"
    THEN LET res == newRandomInt(v, d)
         IN [fault |-> res.fault, value |-> res.value, last |-> res.value]
    ELSE LET res == newRandomString(v, d)
             slot == StringValue(strncpy(res.value.s))
         IN IF res.fault
            THEN [fault |-> TRUE, value |-> Indeterminate, last |-> Indeterminate]
            ELSE [fault |-> FALSE, value |-> slot,
                  last |-> StringValue(strncpy(slot.s))]

(* The copy of one arm of the union, chosen by info.type: the arm that was
   written last is copied as it is; a copy of any other arm is a copy of
   bytes nobody wrote as that type. *)
copyArm(type, from) ==
    IF from.t = type
    THEN IF type = "string" THEN StringValue(strncpy(from.s)) ELSE from
    ELSE Indeterminate

(* Variants of updateBests the properties of the scoring are tried against:
   one that records every duration, one that also records a tie. *)
updateBestsAlways(v, duration) ==
    [v EXCEPT !.best_time = duration,
              !.bestValue = copyArm(v.info.type, v.lastValue)]

updateBestsOnTie(v, duration) ==
    IF duration <= v.best_time
    THEN [v EXCEPT !.best_time = duration,
                   !.bestValue = copyArm(v.info.type, v.lastValue)]
    ELSE v

(* an updateBests that also files the duration in the Variable's bin list (a
   variant the emptiness of the bin lists is tried against) *)
updateBestsBinned(v, duration) ==
    IF duration < v.best_time
    THEN [v EXCEPT !.best_time = duration,
                   !.bestValue = copyArm(v.info.type, v.lastValue),
                   !.bins = Append(@, duration)]
    ELSE [v EXCEPT !.bins = Append(@, duration)]

(* Variable::updateBests *)
updateBests(v, duration) ==
    IF duration < v.best_time
    THEN [v EXCEPT !.best_time = duration,
                   !.bestValue = copyArm(v.info.type, v.lastValue)]
    ELSE v

-----------------------------------------------------------------------------
(* class Context *)

(* Context::Context(id): the two vectors start empty and start_time_ is the
   clock's epoch (std::chrono::time_point's default constructor). *)
NewContext(id) ==
    [_id |-> id, inputVariables |-> <<>>,
     outputVariables |-> <<>>, start_time_ |-> 0]

(* One entry of `steps`. *)
Step(op, id, value, n) == [op |-> op, id |-> id, value |-> value, n |-> n]

(* an addInputVariables that looks each id up and records only the declared
   ones (a variant the recording of the input ids is tried against) *)
addInputVariablesDeclared(c, ins) ==
    [c EXCEPT !.inputVariables =
        c.inputVariables \o SelectSeq(ins, LAMBDA id : id \in DOMAIN variables)]

(* Context::addInputVariables *)
addInputVariables(c, ins) ==
    [c EXCEPT !.inputVariables = c.inputVariables \o ins]

(* Context::addOutputVariables, from element i on.  acc carries the context,
   the registry, the log and whether a fault was raised.  The log gets one
   assignNewValue entry per slot: the id, the value written to the slot, the
   slot's index.  An id that variables.find does not find makes iter->second
   undefined: the call faults, or it goes on without touching a registered
   Variable and leaves bytes of no known value in the slot. *)
RECURSIVE addOutputVariables(_, _, _, _)
addOutputVariables(acc, outs, draws, i) ==
    IF i > Len(outs) \/ acc.fault THEN acc
    ELSE
      LET id == outs[i]
          c1 == [acc.c EXCEPT !.outputVariables = Append(@, id)]
      IN IF id \notin DOMAIN acc.vs
         THEN addOutputVariables(
                [acc EXCEPT !.c = c1,
                            !.fault = draws[i].trap,
                            !.log = Append(@, Step("assignNewValue", id, Indeterminate, i))],
                outs, draws, i + 1)
         ELSE
           LET v == acc.vs[id]
               res == assignNewValue(v, v.info.type, draws[i])
           IN addOutputVariables(
                [c |-> c1,
                 vs |-> IF res.fault THEN acc.vs
                        ELSE [acc.vs EXCEPT ![id].lastValue = res.last],
                 log |-> IF res.fault THEN acc.log
                         ELSE Append(acc.log, Step("assignNewValue", id, res.value, i)),
                 fault |-> res.fault],
                outs, draws, i + 1)

(* a stop that scores every registered Variable, bound or not (a variant the
   frame of kokkosp_end_context is tried against) *)
stopAll(acc, outs, duration, i) ==
    [vs |-> [id \in DOMAIN acc.vs |-> updateBests(acc.vs[id], duration)],
     log |-> acc.log]

(* a stop that registers a newly constructed Variable in place of each one
   it scores (a variant the permanence of the registry is tried against) *)
stopReplacing(acc, outs, duration, i) ==
    [vs |-> [id \in DOMAIN acc.vs |->
               IF id \in Range(outs)
               THEN NewVariable(id, acc.vs[id].name, acc.vs[id].info, acc.vs[id].output)
               ELSE acc.vs[id]],
     log |-> acc.log]

(* Context::stop, from element i of outputVariables on, with the duration
   already computed. *)
RECURSIVE stop(_, _, _, _)
stop(acc, outs, duration, i) ==
    IF i > Len(outs) THEN acc
    ELSE
      LET id == outs[i]
      IN IF id \notin DOMAIN acc.vs
         THEN stop(acc, outs, duration, i + 1)
         ELSE stop([vs |-> [acc.vs EXCEPT ![id] = updateBests(@, duration)],
                    log |-> Append(acc.log, Step("updateBests", id, Indeterminate, duration))],
                   outs, duration, i + 1)

(* the reading of the clock at the start instead of a duration (a variant
   the scores of nested contexts are tried against) *)
ElapsedToStart(c, end_time) == c.start_time_

(* a duration counted from the clock's epoch instead of from start_time_
   (a variant the scoring of kokkosp_end_context is tried against) *)
ElapsedSinceEpoch(c, end_time) == end_time

(* duration_cast<nanoseconds>(end_time - start_time_).count(), a signed
   64-bit count, passed to updateBests(size_t): the clock never runs
   backwards here, so the count is not negative and the conversion keeps it *)
Elapsed(c, end_time) == end_time - c.start_time_

-----------------------------------------------------------------------------
(* What the host can pass *)

Names == {<<"D">>, <<"S", "w">>}

IntSet == <<1, 2>>
BigIntSet == <<-5, 12>>
DoubleSet == <<150, 225>>
StringSet == <<<<"s", "t">>, <<"d", "y", "n">>>>

(* the steps of the double ranges the host declares over [0.8, 1.2]: 0.01,
   and one that is wider than the range *)
DoubleSteps == {1, 50}

(* the candidates the host declares for a type and a quantity *)
CandidatesOf(type, quantity) ==
    IF quantity = "set"
    THEN {SetCandidates(IF type = "int64" THEN BigIntSet
                        ELSE IF type = "double" THEN DoubleSet
                        ELSE StringSet)}
    ELSE IF quantity = "range"
    THEN IF type = "int64"
         THEN {RangeCandidates(1, 6, 1, ol, ou) : ol \in BOOLEAN, ou \in BOOLEAN}
         ELSE IF type = "double"
         THEN {RangeCandidates(80, 120, st, ol, ou) :
                 st \in DoubleSteps, ol \in BOOLEAN, ou \in BOOLEAN}
         ELSE {NoCandidates}
    ELSE {NoCandidates}

(* every declaration of the interface: type x category x quantity *)
AllInfos ==
    UNION {{VariableInfo(t, c, q, cand) : cand \in CandidatesOf(t, q)} :
             t \in ValueTypes, c \in Categories, q \in Quantities}

(* the declarations of the protocol runs: a tuner over a set of integers, and
   a description whose values cannot be enumerated *)
TunerInfo == VariableInfo("int64", "categorical", "set", SetCandidates(IntSet))
DescriptionInfo == VariableInfo("string", "categorical", "unbounded", NoCandidates)

(* the host asks for values once per context: no ids are recorded yet *)
Unbound(c) ==
    c \in DOMAIN contexts =>
       /\ contexts[c].inputVariables = <<>>
       /\ contexts[c].outputVariables = <<>>

(* the id lists of a request: at most two tuning variables, one input *)
OutputLists(ids) ==
    {<<>>} \cup {<<a>> : a \in ids} \cup {<<a, b>> : a \in ids, b \in ids}
InputLists(ids) == {<<>>} \cup {<<a>> : a \in ids}

(* the draws one slot of a request can consume *)
DrawsFor(vs, id) ==
    IF id \notin DOMAIN vs
    THEN {[r |-> 0, trap |-> tr, g |-> 0] : tr \in BOOLEAN}
    ELSE IF ReadsUndefined(vs[id], vs[id].info.type)
    THEN {[r |-> 0, trap |-> TRUE, g |-> 0]}
           \cup {[r |-> 0, trap |-> FALSE, g |-> g] : g \in GarbageInts}
    ELSE {[r |-> r, trap |-> FALSE, g |-> 0] : r \in Rand}

DrawLists(vs, outs) ==
    IF Len(outs) = 0 THEN {<<>>}
    ELSE IF Len(outs) = 1 THEN {<<d>> : d \in DrawsFor(vs, outs[1])}
    ELSE {<<d, e>> : d \in DrawsFor(vs, outs[1]), e \in DrawsFor(vs, outs[2])}

-----------------------------------------------------------------------------
(* The state after the library is loaded *)

(* one process, one thread, KOKKOS_VERBOSE not set: mylog() writes to
   /dev/null *)
OneQuietProcess ==
    /\ verbose = FALSE
    /\ out = <<>>
    /\ twin = <<>>
    /\ pending = <<>>
    /\ threads = <<>>
    /\ host = <<>>

Init ==
    /\ variables = <<>>
    /\ contexts = <<>>
    /\ now = 0
    /\ steps = <<>>
    /\ heap = 0
    /\ crashed = FALSE
    /\ sampledIn = <<>>
    /\ bestFrom = <<>>
    /\ trace = <<>>
    /\ OneQuietProcess

(* an insert that keeps the entry a key already has (a variant last write
   wins is tried against) *)
MapPutIfAbsent(m, k, x) ==
    [j \in DOMAIN m \cup {k} |-> IF j \in DOMAIN m THEN m[j] ELSE x]
(* m[k] = x, adding k to the map when it is not a key *)
MapPut(m, k, x) == [j \in DOMAIN m \cup {k} |-> IF j = k THEN x ELSE m[j]]
(* an erase that removes nothing (a variant the lifecycle of a context is
   tried against) *)
MapKeep(m, k) == m
(* m.erase(k) *)
MapErase(m, k) == [j \in DOMAIN m \ {k} |-> m[j]]

(* A fault ends the process: its memory is gone, and all that is left to
   observe is that it died, in which callback and on which id. *)
Crash(op, id) ==
    /\ crashed' = TRUE
    /\ steps' = <<Step("fault", id, Indeterminate, 0), Step(op, id, Indeterminate, 0)>>
    /\ variables' = <<>>
    /\ contexts' = <<>>
    /\ sampledIn' = <<>>
    /\ bestFrom' = <<>>
    /\ UNCHANGED <<now, heap, trace>>

(* kokkosp_declare_output_type *)
DeclareOutput(name, id, info) ==
    /\ ~crashed
    /\ heap' = heap + 1
    /\ variables' = MapPut(variables, id,
                           makeSpace(NewVariable(id, name, info, TRUE)))
    /\ steps' = <<Step("new Variable", id, Indeterminate, 0)>>
    /\ bestFrom' = MapPut(bestFrom, id, Indeterminate)
    /\ UNCHANGED <<contexts, now, crashed, sampledIn, trace>>

(* kokkosp_declare_input_type: like the above, without makeSpace *)
DeclareInput(name, id, info) ==
    /\ ~crashed
    /\ heap' = heap + 1
    /\ variables' = MapPut(variables, id,
                           NewVariable(id, name, info, FALSE))
    /\ steps' = <<Step("new Variable", id, Indeterminate, 0)>>
    /\ bestFrom' = MapPut(bestFrom, id, Indeterminate)
    /\ UNCHANGED <<contexts, now, crashed, sampledIn, trace>>

(* a begin that leaves a context that is still open in place (a variant the
   silent replacement is tried against) *)
BeginContextOnce(contextId) ==
    /\ ~crashed
    /\ heap' = heap + 1
    /\ contexts' = MapPutIfAbsent(contexts, contextId, NewContext(contextId))
    /\ steps' = <<Step("new Context", contextId, Indeterminate, 0)>>
    /\ sampledIn' = MapPutIfAbsent(sampledIn, contextId, <<>>)
    /\ UNCHANGED <<variables, now, crashed, bestFrom, trace>>

(* kokkosp_begin_context.  The assignment overwrites the pointer the map held
   for contextId: the Context it pointed to is neither stopped nor deleted
   (logged as "leak", with the number of output ids it had bound). *)
BeginContext(contextId) ==
    /\ ~crashed
    /\ heap' = heap + 1
    /\ contexts' = MapPut(contexts, contextId, NewContext(contextId))
    /\ steps' = <<Step("new Context", contextId, Indeterminate, 0)>>
                 \o (IF contextId \in DOMAIN contexts
                     THEN <<Step("leak", contextId, Indeterminate,
                                 Len(contexts[contextId].outputVariables))>>
                     ELSE <<>>)
    /\ sampledIn' = MapPut(sampledIn, contextId, <<>>)
    /\ UNCHANGED <<variables, now, crashed, bestFrom, trace>>

(* the host's tuningVariableValues array after a request, read off its log *)
SlotsOf(log) ==
    LET idx == {i \in DOMAIN log : log[i].op = "assignNewValue"}
    IN [n \in 1..Cardinality(idx) |->
          LET i == CHOOSE j \in idx : log[j].n = n
          IN [type_id |-> log[i].id, value |-> log[i].value]]

(* the value each id of a request got from the slot that carries it last *)
SampledBy(slotsOut) ==
    [id \in {slotsOut[i].type_id : i \in DOMAIN slotsOut} |->
        LET last == CHOOSE i \in DOMAIN slotsOut :
                      /\ slotsOut[i].type_id = id
                      /\ \A j \in DOMAIN slotsOut : slotsOut[j].type_id = id => j <= i
        IN slotsOut[last].value]

(* kokkosp_request_values.  contexts.find is not checked: for a contextId
   that is no key, iter->second is undefined; the call faults (trap), or it
   runs on memory that is no registered Context. *)
RequestValues(contextId, ins, outs, draws, trap) ==
    /\ ~crashed
    /\ LET known == contextId \in DOMAIN contexts
           context == IF known THEN contexts[contextId]
                      ELSE NewContext(contextId)
           c1 == addInputVariables(context, ins)
           log1 == [i \in 1..Len(ins) |->
                      Step("addInputVariables", ins[i], Indeterminate, i)]
           acc == addOutputVariables(
                    [c |-> c1, vs |-> variables,
                     log |-> log1, fault |-> FALSE],
                    outs, draws, 1)
           c2 == [acc.c EXCEPT !.start_time_ = now]
       IN IF (~known /\ trap) \/ acc.fault
          THEN Crash("kokkosp_request_values", contextId)
          ELSE /\ variables' = acc.vs
               /\ contexts' = IF known THEN [contexts EXCEPT ![contextId] = c2]
                              ELSE contexts
               /\ steps' = Append(acc.log, Step("start", contextId, Indeterminate, now))
               /\ sampledIn' = IF known
                               THEN [sampledIn EXCEPT ![contextId] =
                                       [id \in DOMAIN @ \cup DOMAIN SampledBy(SlotsOf(acc.log)) |->
                                          IF id \in DOMAIN SampledBy(SlotsOf(acc.log))
                                          THEN SampledBy(SlotsOf(acc.log))[id] ELSE @[id]]]
                               ELSE sampledIn
               /\ UNCHANGED <<now, heap, crashed, bestFrom, trace>>

(* an end that checks its lookup and reports an id that is not open (a
   variant the undefended lookups are tried against) *)
EndContextChecked(contextId, trap) ==
    /\ ~crashed
    /\ IF contextId \notin DOMAIN contexts
       THEN /\ steps' = <<Step("UnknownId", contextId, Indeterminate, 0)>>
            /\ UNCHANGED <<contexts, sampledIn>>
       ELSE /\ steps' = <<Step("erase", contextId, Indeterminate, 0)>>
            /\ contexts' = MapErase(contexts, contextId)
            /\ sampledIn' = MapErase(sampledIn, contextId)
    /\ UNCHANGED <<variables, now, heap, crashed, bestFrom, trace>>

(* kokkosp_end_context.  As above for a contextId that is no key: the call
   faults, or stop() runs on memory that is no registered Context and
   erase finds nothing. *)
EndContext(contextId, trap) ==
    /\ ~crashed
    /\ IF contextId \notin DOMAIN contexts
       THEN IF trap THEN Crash("kokkosp_end_context", contextId)
            ELSE /\ steps' = <<Step("erase", contextId, Indeterminate, 0)>>
                 /\ UNCHANGED <<variables, contexts, now, heap, crashed,
                                sampledIn, bestFrom, trace>>
       ELSE LET context == contexts[contextId]
                duration == Elapsed(context, now)
                outs == context.outputVariables
                acc == stop([vs |-> variables, log |-> <<>>], outs, duration, 1)
                unknown == \E i \in DOMAIN outs : outs[i] \notin DOMAIN variables
            IN IF unknown /\ trap
               THEN Crash("kokkosp_end_context", contextId)
               ELSE /\ variables' = acc.vs
                    /\ contexts' = MapErase(contexts, contextId)
                    /\ steps' = Append(acc.log, Step("erase", contextId, Indeterminate, 0))
                    /\ sampledIn' = MapErase(sampledIn, contextId)
                    /\ bestFrom' =
                         [id \in DOMAIN bestFrom |->
                            IF /\ id \in Range(outs)
                               /\ id \in DOMAIN variables
                               /\ acc.vs[id].best_time < variables[id].best_time
                            THEN IF id \in DOMAIN sampledIn[contextId]
                                 THEN sampledIn[contextId][id] ELSE Indeterminate
                            ELSE bestFrom[id]]
                    /\ UNCHANGED <<now, heap, crashed, trace>>

(* kokkosp_init_library: a log line, nothing else *)
InitLibrary ==
    /\ ~crashed
    /\ UNCHANGED vars

(* a report that does not look at the output flag (a variant the report is
   tried against) *)
reportBestAny(v) ==
    <<[op |-> "Best random value for variable", id |-> v.id,
       name |-> v.name, value |-> copyArm(v.info.type, v.bestValue)]>>

(* Variable::reportBest: nothing for an input, one line for an output *)
reportBest(v) ==
    IF ~v.output THEN <<>>
    ELSE <<[op |-> "Best random value for variable", id |-> v.id,
            name |-> v.name, value |-> copyArm(v.info.type, v.bestValue)]>>

(* the lines of the loop over `variables`, a std::map: in the order of
   the ids *)
RECURSIVE reportFrom(_, _)
reportFrom(vs, ids) ==
    IF ids = {} THEN <<>>
    ELSE LET k == CHOOSE x \in ids : \A y \in ids : x <= y
         IN reportBest(vs[k]) \o reportFrom(vs, ids \ {k})

(* a report that never warns (a variant the report of
   kokkosp_finalize_library is tried against) *)
FinalReportNoWarning ==
    <<[op |-> "Best values found:", id |-> 0,
       name |-> <<>>, value |-> Indeterminate]>>
    \o reportFrom(variables, DOMAIN variables)

(* what kokkosp_finalize_library writes: the warning on std::cerr when no
   variable was declared, else the banner and the lines of reportBest *)
FinalReport ==
    IF Cardinality(DOMAIN variables) = 0
    THEN <<[op |-> "No variables tuned!", id |-> 0,
            name |-> <<>>, value |-> Indeterminate]>>
    ELSE <<[op |-> "Best values found:", id |-> 0,
            name |-> <<>>, value |-> Indeterminate]>>
         \o reportFrom(variables, DOMAIN variables)

(* kokkosp_finalize_library: it reads the registry and changes nothing *)
FinalizeLibrary ==
    /\ ~crashed
    /\ UNCHANGED vars

(* Time passes between two callbacks: one unit, or up to INT_MAX ns after
   the epoch. *)
Tick(d) ==
    /\ ~crashed
    /\ d > 0
    /\ \/ d = 1 /\ now < MaxTime
       \/ d > 1 /\ now <= MaxTime /\ d = INT_MAX - now
    /\ now' = now + d
    /\ steps' = <<>>
    /\ UNCHANGED <<variables, contexts, heap, crashed,
                   sampledIn, bestFrom, trace>>

(* the runs stop allocating at MaxHeap objects *)
HeapLeft == heap < MaxHeap

-----------------------------------------------------------------------------
(* The protocol runs: two variable ids, two context ids, a tuner over a set
   of integers and a description without candidates, one request per context
   naming input 1 and at most one tuning variable. *)

(* whether a lookup of this call can fail, so that its outcome is open *)
EndLookupFails(c) ==
    \/ c \notin DOMAIN contexts
    \/ \E i \in DOMAIN contexts[c].outputVariables :
          contexts[c].outputVariables[i] \notin DOMAIN variables

Traps(fails) == IF fails THEN BOOLEAN ELSE {FALSE}

Next ==
    \/ HeapLeft /\ (\E id \in VarIds : DeclareOutput(<<"D">>, id, TunerInfo))
       /\ UNCHANGED aux
    \/ HeapLeft /\ DeclareInput(<<"k">>, 1, DescriptionInfo) /\ UNCHANGED aux
    \/ HeapLeft /\ (\E c \in CtxIds : BeginContext(c)) /\ UNCHANGED aux
    \/ (\E c \in CtxIds, outs \in InputLists(VarIds) :
          \E draws \in DrawLists(variables, outs) :
             \E trap \in Traps(c \notin DOMAIN contexts) :
                Unbound(c) /\ RequestValues(c, <<1>>, outs, draws, trap))
       /\ UNCHANGED aux
    \/ (\E c \in CtxIds : \E trap \in Traps(EndLookupFails(c)) : EndContext(c, trap))
       /\ UNCHANGED aux
    \/ InitLibrary /\ UNCHANGED aux
    \/ FinalizeLibrary /\ UNCHANGED aux
    \/ (\E d \in {1, INT_MAX - now} : Tick(d)) /\ UNCHANGED aux

Spec == Init /\ [][Next]_<<vars, aux>>

-----------------------------------------------------------------------------
(* The domain runs: one variable id and one context id, every declaration of
   the interface as a tuning variable, requests that name the variable once
   or twice (and an input id nobody declared), no clock step. *)

NextDomain ==
    \/ HeapLeft /\ (\E name \in Names, info \in AllInfos : DeclareOutput(name, 1, info))
       /\ UNCHANGED aux
    \/ HeapLeft /\ BeginContext(1) /\ UNCHANGED aux
    \/ (\E outs \in {<<1>>, <<1, 1>>} :
          \E draws \in DrawLists(variables, outs) :
             \E trap \in Traps(1 \notin DOMAIN contexts) :
                Unbound(1) /\ RequestValues(1, <<2>>, outs, draws, trap))
       /\ UNCHANGED aux
    \/ (\E trap \in Traps(EndLookupFails(1)) : EndContext(1, trap)) /\ UNCHANGED aux

SpecDomain == Init /\ [][NextDomain]_<<vars, aux>>

-----------------------------------------------------------------------------
(* The scoring runs: updateBests alone, on one freshly declared tuner.  The
   k-th call finds lastValue = k (what the k-th request sampled) and gets any
   of a few durations; trace keeps what each call was given and left. *)

ScoreDurations == {10, 30, 50, 80, 999999999, INT_MAX}

InitScore ==
    /\ variables = MapPut(<<>>, 1, makeSpace(NewVariable(1, <<"D">>, TunerInfo, TRUE)))
    /\ contexts = <<>>
    /\ now = 0
    /\ steps = <<>>
    /\ heap = 1
    /\ crashed = FALSE
    /\ sampledIn = <<>>
    /\ bestFrom = MapPut(<<>>, 1, Indeterminate)
    /\ trace = <<>>
    /\ OneQuietProcess

ScoreCall(duration) ==
    /\ Len(trace) < MaxTrace
    /\ LET k == Len(trace) + 1
           v == updateBests([variables[1] EXCEPT !.lastValue = IntValue(k)], duration)
       IN /\ variables' = [variables EXCEPT ![1] = v]
          /\ trace' = Append(trace, [duration |-> duration,
                                     before |-> variables[1].best_time,
                                     bestBefore |-> variables[1].bestValue,
                                     lastValue |-> IntValue(k),
                                     best_time |-> v.best_time,
                                     bestValue |-> v.bestValue])
    /\ steps' = <<Step("updateBests", 1, Indeterminate, duration)>>
    /\ UNCHANGED <<contexts, now, heap, crashed, sampledIn, bestFrom>>

NextScore == (\E duration \in ScoreDurations : ScoreCall(duration)) /\ UNCHANGED aux

SpecScore == InitScore /\ [][NextScore]_<<vars, aux>>

-----------------------------------------------------------------------------
(* The runs of two processes: one without KOKKOS_VERBOSE, one with it, given
   the same calls, the same results of rand() (and the same outcome wherever
   the behaviour is undefined) and the same clock readings.  The process
   whose registry is in the variables is the one that runs; Switch puts the
   other one there.  Each call is given to the quiet process, then to the
   verbose one. *)

(* void_stream::operator(): std::cout when verbose, /dev/null otherwise *)
mylog(v, lines) == IF v THEN lines ELSE <<>>

(* The lines a callback sends to mylog(): its __FUNCTION__ line, and the
   "Setting <name> to <value>" line of every assignNewValue. *)
TraceLines(callback, log) ==
    <<[op |-> callback, id |-> 0, value |-> Indeterminate]>>
    \o [i \in DOMAIN SlotsOf(log) |->
          [op |-> "Setting", id |-> SlotsOf(log)[i].type_id,
           value |-> SlotsOf(log)[i].value]]

(* one call of the host (or one step of the clock, "tick") *)
Call(op, id, outs, draws, trap, d) ==
    [op |-> op, id |-> id, outs |-> outs, draws |-> draws, trap |-> trap, d |-> d]

(* the calls the host can make now: tuner 1 or 2, description 1, context 1 *)
HostCalls ==
    {Call("kokkosp_declare_output_type", id, <<>>, <<>>, FALSE, 0) : id \in VarIds}
    \cup {Call("kokkosp_declare_input_type", 1, <<>>, <<>>, FALSE, 0)}
    \cup {Call("kokkosp_begin_context", 1, <<>>, <<>>, FALSE, 0)}
    \cup UNION {{Call("kokkosp_request_values", 1, outs, draws, trap, 0) :
                    draws \in DrawLists(variables, outs),
                    trap \in Traps(1 \notin DOMAIN contexts)} :
                 outs \in InputLists(VarIds)}
    \cup {Call("kokkosp_end_context", 1, <<>>, <<>>, trap, 0) :
            trap \in Traps(EndLookupFails(1))}
    \cup {Call("kokkosp_init_library", 0, <<>>, <<>>, FALSE, 0),
          Call("kokkosp_finalize_library", 0, <<>>, <<>>, FALSE, 0),
          Call("tick", 0, <<>>, <<>>, FALSE, 1)}

(* the callback (or clock step) a call stands for *)
Perform(call) ==
    \/ /\ call.op = "kokkosp_declare_output_type"
       /\ HeapLeft
       /\ DeclareOutput(<<"D">>, call.id, TunerInfo)
    \/ /\ call.op = "kokkosp_declare_input_type"
       /\ HeapLeft
       /\ DeclareInput(<<"k">>, call.id, DescriptionInfo)
    \/ /\ call.op = "kokkosp_begin_context"
       /\ HeapLeft
       /\ BeginContext(call.id)
    \/ /\ call.op = "kokkosp_request_values"
       /\ Unbound(call.id)
       /\ RequestValues(call.id, <<1>>, call.outs, call.draws, call.trap)
    \/ /\ call.op = "kokkosp_end_context"
       /\ EndContext(call.id, call.trap)
    \/ /\ call.op = "kokkosp_init_library"
       /\ InitLibrary
    \/ /\ call.op = "kokkosp_finalize_library"
       /\ FinalizeLibrary
    \/ /\ call.op = "tick"
       /\ Tick(call.d)

(* what the running process writes through mylog() in the step *)
Logged(call) ==
    out' = IF call.op = "tick" THEN <<>>
           ELSE mylog(verbose, TraceLines(call.op, steps'))

(* the process in the variables, as a record *)
Process ==
    [variables |-> variables, contexts |-> contexts, now |-> now,
     steps |-> steps, heap |-> heap, crashed |-> crashed,
     sampledIn |-> sampledIn, bestFrom |-> bestFrom, out |-> out]

(* both processes have loaded the library; the second one is the verbose
   one *)
InitVerbose ==
    /\ variables = <<>>
    /\ contexts = <<>>
    /\ now = 0
    /\ steps = <<>>
    /\ heap = 0
    /\ crashed = FALSE
    /\ sampledIn = <<>>
    /\ bestFrom = <<>>
    /\ trace = <<>>
    /\ verbose = FALSE
    /\ out = <<>>
    /\ twin = Process
    /\ pending = <<>>
    /\ threads = <<>>
    /\ host = <<>>

(* the host calls the quiet process *)
QuietCall ==
    /\ ~verbose
    /\ pending = <<>>
    /\ \E call \in HostCalls :
          /\ Perform(call)
          /\ Logged(call)
          /\ pending' = <<call>>
    /\ UNCHANGED <<verbose, twin, threads, host>>

(* the same call, with the same draws, reaches the verbose process *)
VerboseCall ==
    /\ verbose
    /\ pending # <<>>
    /\ Perform(pending[1])
    /\ Logged(pending[1])
    /\ pending' = <<>>
    /\ UNCHANGED <<verbose, twin, threads, host>>

(* the other process is looked at: after the quiet one was called, and after
   the verbose one has caught up *)
Switch ==
    /\ verbose = (pending = <<>>)
    /\ twin # <<>>
    /\ twin' = Process
    /\ variables' = twin.variables
    /\ contexts' = twin.contexts
    /\ now' = twin.now
    /\ steps' = twin.steps
    /\ heap' = twin.heap
    /\ crashed' = twin.crashed
    /\ sampledIn' = twin.sampledIn
    /\ bestFrom' = twin.bestFrom
    /\ out' = twin.out
    /\ verbose' = ~verbose
    /\ UNCHANGED <<trace, pending, threads, host>>

NextVerbose ==
    \/ QuietCall
    \/ VerboseCall
    \/ Switch

SpecVerbose == InitVerbose /\ [][NextVerbose]_<<vars, aux>>

-----------------------------------------------------------------------------
(* The binning runs: Variable::getBin alone, on one description that has no
   candidates, given any of a few values up to MaxCalls times.  A bin's mean
   is kept as the quotient total / count it is computed from. *)

MaxCalls == 4

(* the values classified: -1.0, 0.75, 1.0, 1.3, 2.0 *)
BinValues == {-100, 75, 100, 130, 200}

(* a constructor that gives every bin the name of the first (a variant the
   naming is tried against) *)
NewBinZero(value, idx) ==
    [mean |-> [num |-> value, den |-> 1],
     total |-> value, min |-> value, max |-> value, count |-> 1,
     name |-> <<"b", "i", "n", "_", "0">>]

(* Bin::Bin(value, idx) *)
NewBin(value, idx) ==
    [mean |-> [num |-> value, den |-> 1],
     total |-> value,
     min |-> value,
     max |-> value,
     count |-> 1,
     name |-> <<"b", "i", "n", "_">> \o natToString(idx)]

(* a bin that takes only what lies in its range (a variant the
   classification is tried against) *)
containsRange(b, value) == value <= b.max /\ value >= b.min

(* Bin::contains: value <= max && value >= min, or
   value <= mean * 1.25 && value >= mean * 0.75 *)
contains(b, value) ==
    IF value <= b.max /\ value >= b.min
    THEN TRUE
    ELSE /\ value * 100 * b.mean.den <= b.mean.num * 125
         /\ value * 100 * b.mean.den >= b.mean.num * 75

(* Bin::add *)
add(b, value) ==
    [b EXCEPT !.count = b.count + 1,
              !.total = b.total + value,
              !.mean = [num |-> b.total + value, den |-> b.count + 1],
              !.min = IF value < b.min THEN value ELSE b.min,
              !.max = IF value > b.max THEN value ELSE b.max]

(* Variable::getBin, from bin i on: the bins after the call and the name
   returned *)
RECURSIVE getBin(_, _, _)
getBin(bins, value, i) ==
    IF i > Len(bins)
    THEN LET b == NewBin(value, Len(bins))
         IN [bins |-> Append(bins, b), name |-> b.name]
    ELSE IF contains(bins[i], value)
         THEN [bins |-> [bins EXCEPT ![i] = add(bins[i], value)],
               name |-> bins[i].name]
         ELSE getBin(bins, value, i + 1)

InitBins ==
    /\ variables = MapPut(<<>>, 1, NewVariable(1, <<"k">>, DescriptionInfo, FALSE))
    /\ contexts = <<>>
    /\ now = 0
    /\ steps = <<>>
    /\ heap = 1
    /\ crashed = FALSE
    /\ sampledIn = <<>>
    /\ bestFrom = MapPut(<<>>, 1, Indeterminate)
    /\ trace = <<>>
    /\ OneQuietProcess

(* the number of values the bins hold *)
RECURSIVE Classified(_)
Classified(bins) ==
    IF bins = <<>> THEN 0 ELSE Head(bins).count + Classified(Tail(bins))

(* variables[1]->getBin(value) *)
GetBinCall(value) ==
    /\ Classified(variables[1].bins) < MaxCalls
    /\ LET res == getBin(variables[1].bins, value, 1)
       IN /\ variables' = [variables EXCEPT ![1].bins = res.bins]
          /\ steps' = <<Step("getBin", 1, DoubleValue(value), 0),
                        Step("return", 1, StringValue(res.name), 0)>>
    /\ UNCHANGED <<contexts, now, heap, crashed, sampledIn, bestFrom, trace>>

NextBins == (\E value \in BinValues : GetBinCall(value)) /\ UNCHANGED aux

SpecBins == InitBins /\ [][NextBins]_<<vars, aux>>

-----------------------------------------------------------------------------
(* The driver runs: main's loop over fastest_of("meta-smoother", 3, ...),
   MaxLoop times for its 300.  fastest_of declares its tuner and its input
   once, opens a context, asks for the implementation to run and runs it;
   every smoother opens a context of its own inside, declares its tuning
   variable at its first run, asks for a value, and ends its context before
   fastest_of ends the outer one.  Each callback is one step, and the clock
   can advance between any two.  The smoothers' several tuning variables are
   one Variable each here. *)

MaxLoop == 3

(* sizeof...(Implementations) *)
Implementations == 3

(* the ids Kokkos hands out: the tuner, the input, the smoothers' variables *)
TunerId == 1
InputId == 2
SmootherId(k) == 3 + k

(* create_categorical_int_tuner: the options 0 .. num_options - 1 *)
ImplementationInfo ==
    VariableInfo("int64", "categorical", "set",
                 SetCandidates([x \in 1..Implementations |-> x - 1]))

(* create_fastest_implementation_id's description *)
FastestInfo == VariableInfo("int64", "categorical", "unbounded", NoCandidates)

(* declareOutputRange<int64_t>(name, 1, 2, 1): the values 1, 2 as an ordinal
   set *)
SweepsInfo == VariableInfo("int64", "ordinal", "set", SetCandidates(<<1, 2>>))

(* rand() modulo the size of a space: every residue *)
Residues(n) == {[r |-> r, trap |-> FALSE, g |-> 0] : r \in 0..(n - 1)}

(* a selection that ignores the value and alternates (a variant the search
   of fastest_of is tried against) *)
PickedRoundRobin(value, flipper) == flipper

(* the index fastest_of passes to fastest_of_helper: the value of the request
   or, when that left it negative, the static flipper *)
PickedImplementation(value, flipper) ==
    IF value < 0 THEN flipper ELSE value

InitDriver ==
    /\ variables = <<>>
    /\ contexts = <<>>
    /\ now = 0
    /\ steps = <<>>
    /\ heap = 0
    /\ crashed = FALSE
    /\ sampledIn = <<>>
    /\ bestFrom = <<>>
    /\ trace = <<>>
    /\ verbose = FALSE
    /\ out = <<>>
    /\ twin = <<>>
    /\ pending = <<>>
    /\ threads = <<>>
    /\ host = [pc |-> "tuner", i |-> 0, flipper |-> 0,
               nextContext |-> 1, outer |-> 0, inner |-> 0,
               picked |-> -1, index |-> 0,
               invoked |-> [k \in 1..Implementations |-> 0],
               outerScore |-> 0, innerScore |-> 0]

OneProcess == UNCHANGED <<verbose, out, twin, pending, threads>>

(* fastest_of: ids_for_kernels.find(label), create_categorical_int_tuner at
   the first call *)
DriverTuner ==
    /\ host.pc = "tuner"
    /\ IF host.i = 0
       THEN DeclareOutput(<<"m">>, TunerId, ImplementationInfo)
       ELSE ~crashed /\ steps' = <<>> /\
            UNCHANGED <<variables, contexts, now, heap, crashed,
                        sampledIn, bestFrom, trace>>
    /\ host' = [host EXCEPT !.pc = "input"]
    /\ OneProcess

(* create_fastest_implementation_id: declares at the first call *)
DriverInput ==
    /\ host.pc = "input"
    /\ IF host.i = 0
       THEN DeclareInput(<<"f">>, InputId, FastestInfo)
       ELSE ~crashed /\ steps' = <<>> /\
            UNCHANGED <<variables, contexts, now, heap, crashed,
                        sampledIn, bestFrom, trace>>
    /\ host' = [host EXCEPT !.pc = "begin"]
    /\ OneProcess

(* context_id = get_new_context_id(); begin_context(context_id) *)
DriverBegin ==
    /\ host.pc = "begin"
    /\ BeginContext(host.nextContext)
    /\ host' = [host EXCEPT !.pc = "request",
                            !.outer = host.nextContext,
                            !.nextContext = host.nextContext + 1]
    /\ OneProcess

(* set_input_values; request_output_values(context_id, 1, &which_kernel) *)
DriverRequest ==
    /\ host.pc = "request"
    /\ \E draws \in {<<d>> : d \in Residues(Implementations)} :
          RequestValues(host.outer, <<InputId>>, <<TunerId>>, draws, FALSE)
    /\ host' = [host EXCEPT !.pc = "invoke",
                            !.picked = SlotsOf(steps')[1].value.n]
    /\ OneProcess

(* fastest_of_helper(index, implementations...): the smoother at `index`
   runs, and begins its own context *)
DriverInvoke ==
    /\ host.pc = "invoke"
    /\ LET index == PickedImplementation(host.picked, host.flipper)
       IN /\ BeginContext(host.nextContext)
          /\ host' = [host EXCEPT !.pc = "smootherDeclare",
                                  !.index = index,
                                  !.flipper = IF host.picked < 0
                                              THEN (host.flipper + 1) % Implementations
                                              ELSE host.flipper,
                                  !.invoked[index + 1] = @ + 1,
                                  !.inner = host.nextContext,
                                  !.nextContext = host.nextContext + 1]
    /\ OneProcess

(* the smoother's static answer_vector: its variable is declared at its
   first run *)
DriverSmootherDeclare ==
    /\ host.pc = "smootherDeclare"
    /\ IF SmootherId(host.index) \notin DOMAIN variables
       THEN DeclareOutput(<<"s">>, SmootherId(host.index), SweepsInfo)
       ELSE ~crashed /\ steps' = <<>> /\
            UNCHANGED <<variables, contexts, now, heap, crashed,
                        sampledIn, bestFrom, trace>>
    /\ host' = [host EXCEPT !.pc = "smootherRequest"]
    /\ OneProcess

(* the smoother's request_output_values; its input values carry the literal
   ids 1 and 2 *)
DriverSmootherRequest ==
    /\ host.pc = "smootherRequest"
    /\ \E draws \in DrawLists(variables, <<SmootherId(host.index)>>) :
          RequestValues(host.inner, <<1, 2>>, <<SmootherId(host.index)>>, draws, FALSE)
    /\ host' = [host EXCEPT !.pc = "smootherEnd"]
    /\ OneProcess

(* the smoother's end_context *)
DriverSmootherEnd ==
    /\ host.pc = "smootherEnd"
    /\ EndContext(host.inner, FALSE)
    /\ host' = [host EXCEPT !.pc = "end",
                            !.innerScore = steps'[1].n]
    /\ OneProcess

(* fastest_of's end_context, and the loop's i++ *)
DriverEnd ==
    /\ host.pc = "end"
    /\ EndContext(host.outer, FALSE)
    /\ host' = [host EXCEPT !.pc = IF host.i + 1 < MaxLoop THEN "tuner" ELSE "done",
                            !.i = host.i + 1,
                            !.outerScore = steps'[1].n]
    /\ OneProcess

(* time passes while the driver runs *)
DriverTick ==
    /\ host.pc # "done"
    /\ \E d \in {1, INT_MAX - now} : Tick(d)
    /\ UNCHANGED aux

NextDriver ==
    \/ DriverTuner
    \/ DriverInput
    \/ DriverBegin
    \/ DriverRequest
    \/ DriverInvoke
    \/ DriverSmootherDeclare
    \/ DriverSmootherRequest
    \/ DriverSmootherEnd
    \/ DriverEnd
    \/ DriverTick

SpecDriver == InitDriver /\ [][NextDriver]_<<vars, aux>>

-----------------------------------------------------------------------------
(* The set runs: tuning variable 1 declared, again and again, with a set of
   up to MaxLen values of any type and category, values repeated or not. *)

MaxLen == 3

(* the values a set is made of, by type *)
SetValues(type) ==
    IF type = "int64" THEN {-5, 12}
    ELSE IF type = "double" THEN {150, 225}
    ELSE {<<"s", "t">>, <<"d", "y", "n">>}

(* candidates.set: size and values[0 .. size - 1] *)
SetsOf(type) == UNION {[1..n -> SetValues(type)] : n \in 0..MaxLen}

SetInfos ==
    UNION {{VariableInfo(t, c, "set", SetCandidates(vals)) : vals \in SetsOf(t)} :
             t \in ValueTypes, c \in Categories}

NextSet ==
    /\ HeapLeft
    /\ \E info \in SetInfos : DeclareOutput(<<"D">>, 1, info)
    /\ UNCHANGED aux

SpecSet == Init /\ [][NextSet]_<<vars, aux>>

-----------------------------------------------------------------------------
(* The explicit runs: main's second loop, which sets up the search with its
   own calls instead of fastest_of, shortened to MaxLoop iterations, and
   Kokkos::finalize() after it. *)

(* the id of "meta smoother: implementation" *)
ExplicitId == 6

(* declareOutputRange<int64_t>("meta smoother: implementation", 0, 2, 1) *)
ExplicitInfo == VariableInfo("int64", "ordinal", "set", SetCandidates(<<0, 1, 2>>))

(* switch(answer_vector[0].value.int_value) *)
ExplicitCase(value) ==
    IF value = 0 THEN 0 ELSE IF value = 1 THEN 1 ELSE 2

InitExplicit ==
    /\ variables = <<>>
    /\ contexts = <<>>
    /\ now = 0
    /\ steps = <<>>
    /\ heap = 0
    /\ crashed = FALSE
    /\ sampledIn = <<>>
    /\ bestFrom = <<>>
    /\ trace = <<>>
    /\ verbose = FALSE
    /\ out = <<>>
    /\ twin = <<>>
    /\ pending = <<>>
    /\ threads = <<>>
    /\ host = [pc |-> "begin", i |-> 0, flipper |-> 0,
               nextContext |-> 1, outer |-> 0, inner |-> 0,
               picked |-> -1, index |-> 0,
               invoked |-> [k \in 1..Implementations |-> 0],
               outerScore |-> 0, innerScore |-> 0]

(* context{get_new_context_id()}; begin_context(context) *)
ExplicitBegin ==
    /\ host.pc = "begin"
    /\ BeginContext(host.nextContext)
    /\ host' = [host EXCEPT !.pc = "declare",
                            !.outer = host.nextContext,
                            !.nextContext = host.nextContext + 1]
    /\ OneProcess

(* the static answer_vector{makeOuterVars()}: declared in the first
   iteration *)
ExplicitDeclare ==
    /\ host.pc = "declare"
    /\ IF host.i = 0
       THEN DeclareOutput(<<"m">>, ExplicitId, ExplicitInfo)
       ELSE ~crashed /\ steps' = <<>> /\
            UNCHANGED <<variables, contexts, now, heap, crashed,
                        sampledIn, bestFrom, trace>>
    /\ host' = [host EXCEPT !.pc = "request"]
    /\ OneProcess

(* set_input_values with the literal id 1; request_output_values *)
ExplicitRequest ==
    /\ host.pc = "request"
    /\ \E draws \in {<<d>> : d \in Residues(Implementations)} :
          RequestValues(host.outer, <<1>>, <<ExplicitId>>, draws, FALSE)
    /\ host' = [host EXCEPT !.pc = "switch",
                            !.picked = SlotsOf(steps')[1].value.n]
    /\ OneProcess

(* the switch calls one smoother, which begins its own context *)
ExplicitSwitch ==
    /\ host.pc = "switch"
    /\ BeginContext(host.nextContext)
    /\ host' = [host EXCEPT !.pc = "smootherDeclare",
                            !.index = ExplicitCase(host.picked),
                            !.invoked[ExplicitCase(host.picked) + 1] = @ + 1,
                            !.inner = host.nextContext,
                            !.nextContext = host.nextContext + 1]
    /\ OneProcess

(* the smoother's end_context; the switch's break, the end of the loop's
   body and its i++ *)
ExplicitSmootherEnd ==
    /\ host.pc = "smootherEnd"
    /\ EndContext(host.inner, FALSE)
    /\ host' = [host EXCEPT !.pc = IF host.i + 1 < MaxLoop THEN "begin" ELSE "finalize",
                            !.i = host.i + 1,
                            !.innerScore = steps'[1].n]
    /\ OneProcess

(* Kokkos::finalize() *)
ExplicitFinalize ==
    /\ host.pc = "finalize"
    /\ FinalizeLibrary
    /\ host' = [host EXCEPT !.pc = "done"]
    /\ OneProcess

NextExplicit ==
    \/ ExplicitBegin
    \/ ExplicitDeclare
    \/ ExplicitRequest
    \/ ExplicitSwitch
    \/ DriverSmootherDeclare
    \/ DriverSmootherRequest
    \/ ExplicitSmootherEnd
    \/ ExplicitFinalize
    \/ DriverTick

SpecExplicit == InitExplicit /\ [][NextExplicit]_<<vars, aux>>

-----------------------------------------------------------------------------
(* The sampled runs: one tuning variable of any declaration, declared once,
   and contexts that request it and end.  The host keeps the description
   it declared and every value a request wrote into its slots. *)

InitSampled ==
    /\ variables = <<>>
    /\ contexts = <<>>
    /\ now = 0
    /\ steps = <<>>
    /\ heap = 0
    /\ crashed = FALSE
    /\ sampledIn = <<>>
    /\ bestFrom = <<>>
    /\ trace = <<>>
    /\ verbose = FALSE
    /\ out = <<>>
    /\ twin = <<>>
    /\ pending = <<>>
    /\ threads = <<>>
    /\ host = [declared |-> <<>>, sampled |-> {}]

SampledDeclare ==
    /\ HeapLeft
    /\ 1 \notin DOMAIN variables
    /\ \E name \in Names, info \in AllInfos :
          /\ DeclareOutput(name, 1, info)
          /\ host' = [host EXCEPT !.declared = <<info>>]
    /\ OneProcess

SampledBegin ==
    /\ HeapLeft
    /\ \E c \in {1, 2} : c \notin DOMAIN contexts /\ BeginContext(c)
    /\ UNCHANGED aux

SampledRequest ==
    /\ 1 \in DOMAIN variables
    /\ \E c \in DOMAIN contexts :
          /\ Unbound(c)
          /\ \E draws \in DrawLists(variables, <<1>>) :
                RequestValues(c, <<2>>, <<1>>, draws, FALSE)
    /\ host' = IF crashed' THEN host
               ELSE [host EXCEPT !.sampled =
                       @ \cup {SlotsOf(steps')[i].value : i \in DOMAIN SlotsOf(steps')}]
    /\ OneProcess

SampledEnd ==
    /\ \E c \in DOMAIN contexts : EndContext(c, FALSE)
    /\ UNCHANGED aux

SampledTick ==
    /\ \E d \in {1, INT_MAX - now} : Tick(d)
    /\ UNCHANGED aux

NextSampled ==
    \/ SampledDeclare
    \/ SampledBegin
    \/ SampledRequest
    \/ SampledEnd
    \/ SampledTick

SpecSampled == InitSampled /\ [][NextSampled]_<<vars, aux>>

-----------------------------------------------------------------------------
(* The input runs: one tuner, two contexts, and requests that carry up to
   two input ids, declared or not, with or without the tuner as output. *)

InputIds == {1, 3}

InputIdLists == {<<>>} \cup {<<a>> : a \in InputIds}
                   \cup {<<a, b>> : a \in InputIds, b \in InputIds}

NextInputs ==
    \/ HeapLeft /\ DeclareOutput(<<"D">>, 1, TunerInfo) /\ UNCHANGED aux
    \/ HeapLeft /\ (\E c \in {1, 2} : c \notin DOMAIN contexts /\ BeginContext(c))
       /\ UNCHANGED aux
    \/ (\E c \in DOMAIN contexts, ins \in InputIdLists :
          /\ Unbound(c)
          /\ RequestValues(c, ins, <<>>, <<>>, FALSE))
       /\ UNCHANGED aux
    \/ (\E c \in DOMAIN contexts, ins \in InputIdLists :
          /\ Unbound(c)
          /\ 1 \in DOMAIN variables
          /\ \E draws \in DrawLists(variables, <<1>>) :
                RequestValues(c, ins, <<1>>, draws, FALSE))
       /\ UNCHANGED aux
    \/ (\E c \in DOMAIN contexts : EndContext(c, FALSE)) /\ UNCHANGED aux
    \/ Tick(1) /\ UNCHANGED aux

SpecInputs == Init /\ [][NextInputs]_<<vars, aux>>

-----------------------------------------------------------------------------
(* fastest_of on its own: up to MaxLoop calls with one of two labels and
   Implementations implementations that touch no registry.  The tool is
   loaded or it is not; without it Kokkos hands out ids and contexts, calls
   nothing, and request_output_values leaves the slot as the caller set
   it. *)

Labels == {<<"m">>, <<"n">>}

(* a helper that runs every implementation it is handed (a variant the
   selection is tried against) *)
fastest_of_helperAll(index, implementations) == implementations

(* fastest_of_helper(index, head, cons...): the implementations it runs *)
RECURSIVE fastest_of_helper(_, _)
fastest_of_helper(index, implementations) ==
    IF implementations = <<>> THEN <<>>
    ELSE IF index = 0 THEN <<Head(implementations)>>
    ELSE fastest_of_helper(index - 1, Tail(implementations))

(* the registry as a call leaves it when no tool is loaded *)
NoCallback ==
    /\ steps' = <<>>
    /\ UNCHANGED <<variables, contexts, now, heap, crashed,
                   sampledIn, bestFrom, trace>>

InitFastest ==
    /\ variables = <<>>
    /\ contexts = <<>>
    /\ now = 0
    /\ steps = <<>>
    /\ heap = 0
    /\ crashed = FALSE
    /\ sampledIn = <<>>
    /\ bestFrom = <<>>
    /\ trace = <<>>
    /\ verbose = FALSE
    /\ out = <<>>
    /\ twin = <<>>
    /\ pending = <<>>
    /\ threads = <<>>
    /\ \E tool \in BOOLEAN :
         host = [tool |-> tool, pc |-> "idle", calls |-> 0,
                 ids_for_kernels |-> <<>>, done |-> FALSE, id |-> 0,
                 nextId |-> 1, nextContext |-> 1,
                 label |-> <<>>, var_id |-> 0, context_id |-> 0,
                 which_kernel |-> -1, flipper |-> 0,
                 declared |-> [l \in Labels |-> 0],
                 entered |-> 0, begun |-> 0, ended |-> 0, invoked |-> <<>>]

(* fastest_of(label, count, ...): the lambda tuner_iter, with
   create_categorical_int_tuner when the label is not in ids_for_kernels *)
FastestTuner(label) ==
    /\ host.pc = "idle"
    /\ host.calls < MaxLoop
    /\ IF label \in DOMAIN host.ids_for_kernels
       THEN /\ ~crashed
            /\ NoCallback
            /\ host' = [host EXCEPT !.pc = "input", !.label = label,
                                    !.var_id = host.ids_for_kernels[label],
                                    !.which_kernel = -1,
                                    !.entered = host.flipper,
                                    !.begun = 0, !.ended = 0, !.invoked = <<>>]
       ELSE /\ IF host.tool
               THEN DeclareOutput(label, host.nextId, ImplementationInfo)
               ELSE ~crashed /\ NoCallback
            /\ host' = [host EXCEPT !.pc = "input", !.label = label,
                                    !.var_id = host.nextId,
                                    !.ids_for_kernels = MapPut(@, label, host.nextId),
                                    !.nextId = @ + 1,
                                    !.declared[label] = @ + 1,
                                    !.which_kernel = -1,
                                    !.entered = host.flipper,
                                    !.begun = 0, !.ended = 0, !.invoked = <<>>]
    /\ OneProcess

(* create_fastest_implementation_id(count) *)
FastestInput ==
    /\ host.pc = "input"
    /\ IF host.done
       THEN /\ ~crashed
            /\ NoCallback
            /\ host' = [host EXCEPT !.pc = "begin"]
       ELSE /\ IF host.tool
               THEN DeclareInput(<<"f">>, host.nextId, FastestInfo)
               ELSE ~crashed /\ NoCallback
            /\ host' = [host EXCEPT !.pc = "begin", !.done = TRUE,
                                    !.id = host.nextId, !.nextId = @ + 1]
    /\ OneProcess

(* context_id = get_new_context_id(); begin_context(context_id) *)
FastestBegin ==
    /\ host.pc = "begin"
    /\ IF host.tool THEN BeginContext(host.nextContext)
       ELSE ~crashed /\ NoCallback
    /\ host' = [host EXCEPT !.pc = "request",
                            !.context_id = host.nextContext,
                            !.nextContext = @ + 1,
                            !.begun = @ + 1]
    /\ OneProcess

(* set_input_values; request_output_values(context_id, 1, &which_kernel) *)
FastestRequest ==
    /\ host.pc = "request"
    /\ IF host.tool
       THEN /\ \E draws \in {<<d>> : d \in Residues(Implementations)} :
                  RequestValues(host.context_id, <<host.id>>, <<host.var_id>>,
                                draws, FALSE)
            /\ host' = [host EXCEPT !.pc = "invoke",
                                    !.which_kernel = SlotsOf(steps')[1].value.n]
       ELSE /\ ~crashed
            /\ NoCallback
            /\ host' = [host EXCEPT !.pc = "invoke"]
    /\ OneProcess

(* the if on which_kernel.value.int_value and the call of fastest_of_helper *)
FastestInvoke ==
    /\ host.pc = "invoke"
    /\ ~crashed
    /\ NoCallback
    /\ LET impls == [k \in 1..Implementations |-> k - 1]
       IN host' = [host EXCEPT
                     !.pc = "end",
                     !.invoked = @ \o fastest_of_helper(
                                        PickedImplementation(host.which_kernel,
                                                             host.flipper),
                                        impls),
                     !.flipper = IF host.which_kernel < 0
                                 THEN (host.flipper + 1) % Implementations
                                 ELSE host.flipper]
    /\ OneProcess

(* end_context(context_id) *)
FastestEnd ==
    /\ host.pc = "end"
    /\ IF host.tool THEN EndContext(host.context_id, FALSE)
       ELSE ~crashed /\ NoCallback
    /\ host' = [host EXCEPT !.pc = "idle", !.calls = @ + 1, !.ended = @ + 1]
    /\ OneProcess

NextFastest ==
    \/ \E label \in Labels : FastestTuner(label)
    \/ FastestInput
    \/ FastestBegin
    \/ FastestRequest
    \/ FastestInvoke
    \/ FastestEnd
    \/ DriverTick

SpecFastest == InitFastest /\ [][NextFastest]_<<vars, aux>>

-----------------------------------------------------------------------------
(* The bins in binary floating point.  A double is a binary fraction of 53
   significant bits, and every sum, product and quotient is rounded to the
   nearest such fraction, ties to the even one.  Here the format has
   Precision significant bits; a number is counted in units of a quarter,
   and the values classified are large enough that every result is a whole
   number of units. *)

Precision == 4

(* the values classified: 5.0, 6.0, 7.0, 10.0, 13.0 *)
FloatValues == {20, 24, 28, 40, 52}

RECURSIVE TwoTo(_)
TwoTo(n) == IF n = 0 THEN 1 ELSE 2 * TwoTo(n - 1)

(* the distance of neighbouring numbers of the format around num/den, from
   the candidate s on *)
RECURSIVE Spacing(_, _, _)
Spacing(num, den, s) ==
    IF num < TwoTo(Precision) * s * den THEN s ELSE Spacing(num, den, 2 * s)

(* num/den > 0 rounded to the nearest number of the format, ties to even *)
RoundPositive(num, den) ==
    LET s == Spacing(num, den, 1)
        q == num \div (den * s)
        twice == 2 * (num - q * den * s)
    IN IF twice > den * s \/ (twice = den * s /\ q % 2 = 1)
       THEN (q + 1) * s
       ELSE q * s

Round(num, den) ==
    IF num = 0 THEN 0
    ELSE IF num < 0 THEN 0 - RoundPositive(0 - num, den)
    ELSE RoundPositive(num, den)

(* an add that leaves min as it was (a variant the running minimum is
   tried against) *)
addRoundedKeepingMin(b, value) ==
    [b EXCEPT !.count = b.count + 1,
              !.total = Round(b.total + value, 1),
              !.mean = Round(Round(b.total + value, 1), b.count + 1),
              !.max = IF value > b.max THEN value ELSE b.max]

(* Bin::Bin(value, idx), mean a double *)
NewBinRounded(value, idx) ==
    [mean |-> value, total |-> value, min |-> value, max |-> value,
     count |-> 1, name |-> <<"b", "i", "n", "_">> \o natToString(idx)]

(* Bin::contains, the products mean * 1.25 and mean * 0.75 rounded *)
containsRounded(b, value) ==
    IF value <= b.max /\ value >= b.min
    THEN TRUE
    ELSE /\ value <= Round(b.mean * 5, 4)
         /\ value >= Round(b.mean * 3, 4)

(* Bin::add: total += value rounds the sum, total / count rounds the
   quotient *)
addRounded(b, value) ==
    [b EXCEPT !.count = b.count + 1,
              !.total = Round(b.total + value, 1),
              !.mean = Round(Round(b.total + value, 1), b.count + 1),
              !.min = IF value < b.min THEN value ELSE b.min,
              !.max = IF value > b.max THEN value ELSE b.max]

(* Variable::getBin, from bin i on: the bins after the call and the index
   of the bin the value went to *)
RECURSIVE getBinRounded(_, _, _)
getBinRounded(bins, value, i) ==
    IF i > Len(bins)
    THEN [bins |-> Append(bins, NewBinRounded(value, Len(bins))), at |-> i]
    ELSE IF containsRounded(bins[i], value)
         THEN [bins |-> [bins EXCEPT ![i] = addRounded(bins[i], value)], at |-> i]
         ELSE getBinRounded(bins, value, i + 1)

(* the caller keeps the values it handed in, by the bin they went to *)
InitRounded ==
    /\ variables = MapPut(<<>>, 1, NewVariable(1, <<"k">>, DescriptionInfo, FALSE))
    /\ contexts = <<>>
    /\ now = 0
    /\ steps = <<>>
    /\ heap = 1
    /\ crashed = FALSE
    /\ sampledIn = <<>>
    /\ bestFrom = MapPut(<<>>, 1, Indeterminate)
    /\ trace = <<>>
    /\ verbose = FALSE
    /\ out = <<>>
    /\ twin = <<>>
    /\ pending = <<>>
    /\ threads = <<>>
    /\ host = [calls |-> 0, joined |-> <<>>]

(* variables[1]->getBin(value) *)
GetBinRoundedCall(value) ==
    /\ host.calls < MaxCalls
    /\ LET res == getBinRounded(variables[1].bins, value, 1)
       IN /\ variables' = [variables EXCEPT ![1].bins = res.bins]
          /\ steps' = <<Step("getBin", 1, DoubleValue(value), 0),
                        Step("return", 1, StringValue(res.bins[res.at].name), 0)>>
          /\ host' = [calls |-> host.calls + 1,
                      joined |-> IF res.at > Len(host.joined)
                                 THEN Append(host.joined, <<value>>)
                                 ELSE [host.joined EXCEPT ![res.at] = Append(@, value)]]
    /\ UNCHANGED <<contexts, now, heap, crashed, sampledIn, bestFrom, trace>>
    /\ OneProcess

NextRounded == \E value \in FloatValues : GetBinRoundedCall(value)

SpecRounded == InitRounded /\ [][NextRounded]_<<vars, aux>>

-----------------------------------------------------------------------------
(* makeRange<int64_t>(min, max, step), statement by statement.  int64_t has
   Width bits here, and the vector can grow to Capacity elements before
   push_back throws std::bad_alloc.  i += step past the largest or the
   least value of the type is undefined: the sum wraps around, or the
   process is stopped. *)

Width == 4
Capacity == 6

IntLeast == 0 - TwoTo(Width - 1)
IntGreatest == TwoTo(Width - 1) - 1

(* the steps tried: backwards, none, and forwards by 1, 2 and 3 *)
RangeSteps == {-1, 0, 1, 2, 3}

(* a sum brought back into the type by two's complement *)
Wrapped(n) ==
    ((n - IntLeast) % TwoTo(Width)) + IntLeast

InitRange ==
    /\ variables = <<>>
    /\ contexts = <<>>
    /\ now = 0
    /\ steps = <<>>
    /\ heap = 0
    /\ crashed = FALSE
    /\ sampledIn = <<>>
    /\ bestFrom = <<>>
    /\ trace = <<>>
    /\ verbose = FALSE
    /\ out = <<>>
    /\ twin = <<>>
    /\ pending = <<>>
    /\ threads = <<>>
    /\ \E min \in IntLeast..IntGreatest, max \in IntLeast..IntGreatest,
          step \in RangeSteps :
         host = [min |-> min, max |-> max, step |-> step,
                 i |-> min, range |-> <<>>, pc |-> "test"]

(* i <= max *)
RangeTest ==
    /\ host.pc = "test"
    /\ host' = [host EXCEPT !.pc = IF host.i <= host.max THEN "push_back"
                                   ELSE "returned"]
    /\ UNCHANGED vars
    /\ OneProcess

(* range.push_back(i) *)
RangePush ==
    /\ host.pc = "push_back"
    /\ host' = IF Len(host.range) >= Capacity
               THEN [host EXCEPT !.pc = "bad_alloc"]
               ELSE [host EXCEPT !.pc = "step", !.range = Append(@, host.i)]
    /\ UNCHANGED vars
    /\ OneProcess

(* i += step *)
RangeStep ==
    /\ host.pc = "step"
    /\ LET sum == host.i + host.step
       IN IF IntLeast <= sum /\ sum <= IntGreatest
          THEN host' = [host EXCEPT !.pc = "test", !.i = sum]
          ELSE \/ host' = [host EXCEPT !.pc = "test", !.i = Wrapped(sum)]
               \/ host' = [host EXCEPT !.pc = "fault"]
    /\ UNCHANGED vars
    /\ OneProcess

NextRange ==
    \/ RangeTest
    \/ RangePush
    \/ RangeStep

(* the loop goes on while it can *)
SpecRange ==
    /\ InitRange
    /\ [][NextRange]_<<vars, aux>>
    /\ WF_<<vars, aux>>(NextRange)

-----------------------------------------------------------------------------
(* The repeated requests: one tuner, one context, and a host that asks for
   values up to MaxRequests times before it ends the context. *)

MaxRequests == 2

NextRepeat ==
    \/ HeapLeft /\ DeclareOutput(<<"D">>, 1, TunerInfo) /\ UNCHANGED aux
    \/ HeapLeft /\ BeginContext(1) /\ UNCHANGED aux
    \/ /\ 1 \in DOMAIN contexts
       /\ 1 \in DOMAIN variables
       /\ Len(contexts[1].outputVariables) < MaxRequests
       /\ \E draws \in DrawLists(variables, <<1>>) :
             RequestValues(1, <<2>>, <<1>>, draws, FALSE)
       /\ UNCHANGED aux
    \/ 1 \in DOMAIN contexts /\ EndContext(1, FALSE) /\ UNCHANGED aux
    \/ (\E d \in {1, INT_MAX - now} : Tick(d)) /\ UNCHANGED aux

SpecRepeat == Init /\ [][NextRepeat]_<<vars, aux>>

-----------------------------------------------------------------------------
(* Two host threads.  No callback takes a lock, so a thread inside
   kokkosp_end_context is at one of its reads and writes of the shared
   registry, and the other thread's reads and writes fall between them
   unless the host serializes its calls.  The declarations, the begins and
   the requests are made while no thread is inside an end. *)

Threads == {1, 2}

(* the test of updateBests that records every duration (a variant the
   serialized ends are tried against) *)
ImprovesAlways(v, duration) == TRUE

(* updateBests: if (duration < best_time) *)
Improves(v, duration) == duration < v.best_time

(* updateBests: best_time = duration *)
writeBestTime(v, duration) == [v EXCEPT !.best_time = duration]

(* updateBests: the copy of lastValue's arm into bestValue *)
writeBestValue(v) == [v EXCEPT !.bestValue = copyArm(v.info.type, v.lastValue)]

Idle == [pc |-> "idle", c |-> 0, duration |-> 0, i |-> 0]

AllIdle == threads # <<>> /\ \A t \in Threads : threads.at[t] = Idle

(* the host's serialization: no call is made while another is running *)
MayRun(t) ==
    \/ ~threads.serial
    \/ \A u \in Threads \ {t} : threads.at[u] = Idle

(* the loop of Context::stop after element i: the next element, or the
   erase of kokkosp_end_context *)
AfterElement(th) ==
    IF th.i < Len(contexts[th.c].outputVariables)
    THEN [th EXCEPT !.pc = "updateBests", !.i = th.i + 1]
    ELSE [th EXCEPT !.pc = "erase"]

InitRace ==
    /\ variables = <<>>
    /\ contexts = <<>>
    /\ now = 0
    /\ steps = <<>>
    /\ heap = 0
    /\ crashed = FALSE
    /\ sampledIn = <<>>
    /\ bestFrom = <<>>
    /\ trace = <<>>
    /\ verbose = FALSE
    /\ out = <<>>
    /\ twin = <<>>
    /\ pending = <<>>
    /\ host = <<>>
    /\ \E serial \in BOOLEAN :
         threads = [serial |-> serial,
                    at |-> [t \in Threads |-> Idle],
                    timeBy |-> 0,
                    valueBy |-> 0,
                    raised |-> FALSE]

OneHost == UNCHANGED <<verbose, out, twin, pending, host>>

(* a callback made while no thread is inside an end *)
RaceSetup ==
    /\ AllIdle
    /\ \/ HeapLeft /\ DeclareOutput(<<"D">>, 1, TunerInfo)
       \/ \E c \in Threads : HeapLeft /\ c \notin DOMAIN contexts /\ BeginContext(c)
       \/ \E c \in DOMAIN contexts :
            /\ Unbound(c)
            /\ 1 \in DOMAIN variables
            /\ \E draws \in DrawLists(variables, <<1>>) :
                 RequestValues(c, <<>>, <<1>>, draws, FALSE)
       \/ Tick(1)
    /\ UNCHANGED aux

(* thread t enters kokkosp_end_context(c): contexts.find, and the first
   two statements of Context::stop, the clock and the duration *)
RaceEnter(t, c) ==
    /\ ~crashed
    /\ threads.at[t] = Idle
    /\ MayRun(t)
    /\ c \in DOMAIN contexts
    /\ contexts[c].outputVariables # <<>>
    /\ \A u \in Threads : threads.at[u].c # c
    /\ threads' = [threads EXCEPT
                     !.at[t] = [pc |-> "updateBests", c |-> c,
                                duration |-> Elapsed(contexts[c], now), i |-> 1]]
    /\ steps' = <<Step("stop", c, Indeterminate, Elapsed(contexts[c], now))>>
    /\ UNCHANGED <<variables, contexts, now, heap, crashed, sampledIn, bestFrom, trace>>
    /\ OneHost

(* thread t at the test of updateBests on element i of the list *)
RaceCompare(t) ==
    LET th == threads.at[t]
        id == contexts[th.c].outputVariables[th.i]
    IN /\ ~crashed
       /\ th.pc = "updateBests"
       /\ MayRun(t)
       /\ threads' = [threads EXCEPT
                        !.at[t] = IF Improves(variables[id], th.duration)
                                  THEN [th EXCEPT !.pc = "best_time"]
                                  ELSE AfterElement(th)]
       /\ steps' = <<Step("updateBests", id, Indeterminate, th.duration)>>
       /\ UNCHANGED <<variables, contexts, now, heap, crashed, sampledIn, bestFrom, trace>>
       /\ OneHost

(* thread t writes best_time *)
RaceWriteTime(t) ==
    LET th == threads.at[t]
        id == contexts[th.c].outputVariables[th.i]
    IN /\ ~crashed
       /\ th.pc = "best_time"
       /\ MayRun(t)
       /\ variables' = [variables EXCEPT ![id] = writeBestTime(@, th.duration)]
       /\ threads' = [threads EXCEPT
                        !.at[t] = [th EXCEPT !.pc = "bestValue"],
                        !.timeBy = th.c,
                        !.raised = @ \/ th.duration > variables[id].best_time]
       /\ steps' = <<Step("best_time", id, Indeterminate, th.duration)>>
       /\ UNCHANGED <<contexts, now, heap, crashed, sampledIn, bestFrom, trace>>
       /\ OneHost

(* thread t writes bestValue *)
RaceWriteValue(t) ==
    LET th == threads.at[t]
        id == contexts[th.c].outputVariables[th.i]
    IN /\ ~crashed
       /\ th.pc = "bestValue"
       /\ MayRun(t)
       /\ variables' = [variables EXCEPT ![id] = writeBestValue(@)]
       /\ threads' = [threads EXCEPT !.at[t] = AfterElement(th), !.valueBy = th.c]
       /\ steps' = <<Step("bestValue", id, variables'[id].bestValue, th.duration)>>
       /\ UNCHANGED <<contexts, now, heap, crashed, sampledIn, bestFrom, trace>>
       /\ OneHost

(* thread t at contexts.erase(contextId).  std::map is not safe for a
   writer next to another thread's find or erase: while another thread is
   inside its end the erase faults, or it unlinks the node as it would
   alone. *)
RaceErase(t, trap) ==
    LET th == threads.at[t]
    IN /\ ~crashed
       /\ th.pc = "erase"
       /\ MayRun(t)
       /\ trap => \E u \in Threads \ {t} : threads.at[u] # Idle
       /\ IF trap
          THEN /\ Crash("kokkosp_end_context", th.c)
               /\ threads' = [threads EXCEPT !.at = [u \in Threads |-> Idle]]
          ELSE /\ contexts' = MapErase(contexts, th.c)
               /\ sampledIn' = MapErase(sampledIn, th.c)
               /\ steps' = <<Step("erase", th.c, Indeterminate, 0)>>
               /\ threads' = [threads EXCEPT !.at[t] = Idle]
               /\ UNCHANGED <<variables, now, heap, crashed, bestFrom, trace>>
       /\ OneHost

NextRace ==
    \/ RaceSetup
    \/ \E t \in Threads, c \in Threads : RaceEnter(t, c)
    \/ \E t \in Threads : RaceCompare(t)
    \/ \E t \in Threads : RaceWriteTime(t)
    \/ \E t \in Threads : RaceWriteValue(t)
    \/ \E t \in Threads, trap \in BOOLEAN : RaceErase(t, trap)

SpecRace == InitRace /\ [][NextRace]_<<vars, aux>>

-----------------------------------------------------------------------------
(* Properties *)

(* the entries of a log that are calls of op on id *)
CallsOf(log, op, id) == {i \in DOMAIN log : log[i].op = op /\ log[i].id = id}

(* the step replaced the object registered under the id *)
Redeclared(id) == CallsOf(steps', "new Variable", id) # {}
Reopened(c) == CallsOf(steps', "new Context", c) # {}

(* C1: as long as an id is registered to the same Variable, no step of
   declare/begin/request/end (or of the clock) makes its best_time larger. *)
C1BestTimeNeverIncreases ==
    [][\A id \in DOMAIN variables \cap DOMAIN variables' :
          ~Redeclared(id) =>
             variables'[id].best_time <= variables[id].best_time]_vars

(* A Variable that holds a recorded best was just given a longer duration. *)
C1Witness ==
    \E id \in DOMAIN variables :
       /\ variables[id].best_time < INT_MAX
       /\ \E i \in CallsOf(steps, "updateBests", id) :
             steps[i].n > variables[id].best_time

(* the durations, and the best_time left, of the calls of the scoring runs *)
DurationsOf(t) == [k \in DOMAIN t |-> t[k].duration]
BestTimesOf(t) == [k \in DOMAIN t |-> t[k].best_time]

(* C2: every call of updateBests with duration < best_time leaves best_time =
   duration and bestValue = the lastValue it found; every other call (a tie
   included) leaves both as they were; the durations 50, 30, 80, 10 leave
   best_time 50, 30, 30, 10 and bestValue the lastValue of the 30 call, then
   of the 10 call. *)
C2UpdateOnlyWhenStrictlyLess ==
    /\ \A k \in DOMAIN trace :
          IF trace[k].duration < trace[k].before
          THEN /\ trace[k].best_time = trace[k].duration
               /\ trace[k].bestValue = trace[k].lastValue
          ELSE /\ trace[k].best_time = trace[k].before
               /\ trace[k].bestValue = trace[k].bestBefore
    /\ \A k \in DOMAIN trace :
          /\ trace[k].before = IF k = 1 THEN INT_MAX ELSE trace[k - 1].best_time
          /\ trace[k].bestBefore = IF k = 1 THEN Indeterminate
                                   ELSE trace[k - 1].bestValue
    /\ DurationsOf(trace) = <<50, 30, 80, 10>> =>
          /\ BestTimesOf(trace) = <<50, 30, 30, 10>>
          /\ trace[2].bestValue = trace[2].lastValue
          /\ trace[3].bestValue = trace[2].lastValue
          /\ trace[4].bestValue = trace[4].lastValue

(* The four calls 50, 30, 80, 10 were made. *)
C2Witness == DurationsOf(trace) = <<50, 30, 80, 10>>

(* C3 as stated: the first call of updateBests on a fresh Variable records
   its duration and the lastValue it finds, whatever the duration. *)
C3FirstCallAlwaysUpdates ==
    Len(trace) >= 1 =>
       /\ trace[1].best_time = trace[1].duration
       /\ trace[1].bestValue = trace[1].lastValue

(* an open context that bound the id as a tuning variable *)
BoundBy(id) ==
    {c \in DOMAIN contexts :
        \E i \in DOMAIN contexts[c].outputVariables :
           contexts[c].outputVariables[i] = id}

(* C4 as stated, for contexts open at the same time: while another context
   that bound the Variable is still open, the bestValue of a scored Variable
   is what the request of the context that set its best_time sampled. *)
C4BestValueFromScoringContext ==
    \A id \in DOMAIN variables :
       (/\ variables[id].best_time < INT_MAX
        /\ variables[id].bestValue.t # "indeterminate"
        /\ BoundBy(id) # {})
       => variables[id].bestValue = bestFrom[id]

(* the phase of the Context registered under c *)
Phase(ctxs, c) ==
    IF c \notin DOMAIN ctxs THEN "Closed"
    ELSE IF ctxs[c].inputVariables = <<>> /\ ctxs[c].outputVariables = <<>>
    THEN "Open"
    ELSE "Bound+Timing"

IsPrefix(s, t) == Len(s) <= Len(t) /\ SubSeq(t, 1, Len(s)) = s

(* the step was kokkosp_end_context(c) returning *)
Ended(c) ==
    /\ ~crashed'
    /\ steps' # <<>>
    /\ steps'[Len(steps')] = Step("erase", c, Indeterminate, 0)

(* the step was kokkosp_request_values(c, ...) returning *)
Requested(c) ==
    /\ ~crashed'
    /\ steps' # <<>>
    /\ steps'[Len(steps')].op = "start"
    /\ steps'[Len(steps')].id = c

(* C5: a Context object only moves Open -> Bound+Timing -> Closed.  While
   the id is registered to the same object its id lists only grow (a bound
   context is never open again); end(c) leaves c out of the contexts map; an
   id enters the map only with a new Context object, which is Open. *)
C5ContextMovesForward ==
    [][\A c \in CtxIds :
          /\ (c \in DOMAIN contexts /\ c \in DOMAIN contexts' /\ ~Reopened(c)) =>
                /\ IsPrefix(contexts[c].inputVariables, contexts'[c].inputVariables)
                /\ IsPrefix(contexts[c].outputVariables, contexts'[c].outputVariables)
                /\ Phase(contexts, c) = "Bound+Timing"
                      => Phase(contexts', c) = "Bound+Timing"
          /\ Ended(c) => Phase(contexts', c) = "Closed"
          /\ Requested(c) /\ c \in DOMAIN contexts
                => Phase(contexts', c) = "Bound+Timing"
          /\ Reopened(c) => Phase(contexts', c) = "Open"
          /\ (c \notin DOMAIN contexts /\ c \in DOMAIN contexts') => Reopened(c)]_vars

(* A context that was bound has just been ended and scored a Variable. *)
C5Witness ==
    \E c \in CtxIds :
       /\ ~crashed
       /\ steps # <<>>
       /\ steps[Len(steps)] = Step("erase", c, Indeterminate, 0)
       /\ \E i \in DOMAIN steps : steps[i].op = "updateBests"
       /\ c \notin DOMAIN contexts

(* the ids of a list that are registered Variables, in the list's order *)
RECURSIVE Registered(_, _)
Registered(ids, vs) ==
    IF ids = <<>> THEN <<>>
    ELSE (IF Head(ids) \in DOMAIN vs THEN <<Head(ids)>> ELSE <<>>)
         \o Registered(Tail(ids), vs)

(* C6: kokkosp_end_context(c) calls updateBests once per entry of c's output
   list, in order, every call with the one duration now - start_time_, calls
   it for no other id (none that is only in the input list), leaves each of
   those Variables as updateBests leaves it, and then erases c. *)
C6EndScoresOutputsWithOneDuration ==
    [][\A c \in DOMAIN contexts :
          Ended(c) =>
             LET outs == Registered(contexts[c].outputVariables, variables)
                 duration == now - contexts[c].start_time_
                 calls == SubSeq(steps', 1, Len(steps') - 1)
             IN /\ calls = [i \in DOMAIN outs |->
                              Step("updateBests", outs[i], Indeterminate, duration)]
                /\ \A i \in DOMAIN contexts[c].inputVariables :
                      LET id == contexts[c].inputVariables[i]
                      IN id \notin Range(outs)
                            => /\ CallsOf(steps', "updateBests", id) = {}
                               /\ id \in DOMAIN variables
                                     => variables'[id] = variables[id]
                /\ \A id \in Range(outs) :
                      /\ variables'[id].best_time =
                            Min(duration, variables[id].best_time)
                      /\ variables'[id].bestValue =
                            IF duration < variables[id].best_time
                            THEN variables[id].lastValue
                            ELSE variables[id].bestValue
                /\ c \notin DOMAIN contexts']_vars

(* A context with a declared input id and another declared output id has
   been ended after time passed since its request: the output was scored
   with a duration that is not zero. *)
C6Witness ==
    /\ ~crashed
    /\ Len(steps) = 2
    /\ steps[2].op = "erase"
    /\ steps[1].op = "updateBests"
    /\ steps[1].id = 2
    /\ steps[1].n > 0
    /\ steps[1].n < INT_MAX
    /\ 1 \in DOMAIN variables
    /\ ~variables[1].output

(* C7: kokkosp_end_context(c) leaves every Variable that is not in c's
   output list as it was (best_time, bestValue, lastValue and all the rest),
   and every other open context as it was (its id lists and start time). *)
C7EndLeavesOthersUnchanged ==
    [][\A c \in DOMAIN contexts :
          Ended(c) =>
             /\ \A id \in DOMAIN variables :
                   id \notin Range(contexts[c].outputVariables)
                      => /\ id \in DOMAIN variables'
                         /\ variables'[id] = variables[id]
             /\ \A other \in DOMAIN contexts \ {c} :
                   /\ other \in DOMAIN contexts'
                   /\ contexts'[other] = contexts[other]]_vars

(* A context has just been ended while another one, bound to a registered
   Variable that the ended one did not score, is still open. *)
C7Witness ==
    /\ ~crashed
    /\ steps # <<>>
    /\ steps[Len(steps)].op = "erase"
    /\ \E other \in DOMAIN contexts, id \in DOMAIN variables :
          /\ other # steps[Len(steps)].id
          /\ id \in Range(contexts[other].outputVariables)
          /\ CallsOf(steps, "updateBests", id) = {}
          /\ variables[id].lastValue.t = "int64"

(* C8: when kokkosp_request_values returns, every slot of the tuning-variable
   array was written once, in order; a slot whose id is registered holds a
   value of the Variable's type, and the Variable's lastValue is the value in
   the last slot carrying its id; the input ids were recorded first, the
   values sampled next, and the timer started last, at the current time. *)
C8RequestSamplesEverySlotThenStartsTimer ==
    [][\A c \in DOMAIN contexts :
          (Requested(c) /\ Phase(contexts, c) = "Open") =>
             LET log == steps'
                 ins == contexts'[c].inputVariables
                 outs == contexts'[c].outputVariables
                 slotsOut == SlotsOf(log)
             IN /\ Len(log) = Len(ins) + Len(outs) + 1
                /\ \A i \in DOMAIN ins :
                      log[i] = Step("addInputVariables", ins[i], Indeterminate, i)
                /\ \A i \in DOMAIN outs :
                      /\ log[Len(ins) + i].op = "assignNewValue"
                      /\ log[Len(ins) + i].id = outs[i]
                      /\ log[Len(ins) + i].n = i
                /\ log[Len(log)] = Step("start", c, Indeterminate, now)
                /\ contexts'[c].start_time_ = now
                /\ Len(slotsOut) = Len(outs)
                /\ \A i \in DOMAIN slotsOut :
                      slotsOut[i].type_id \in DOMAIN variables =>
                         slotsOut[i].value.t = variables[slotsOut[i].type_id].info.type
                /\ \A id \in DOMAIN variables :
                      IF id \in Range(outs)
                      THEN variables'[id].lastValue = SampledBy(slotsOut)[id]
                      ELSE variables'[id].lastValue = variables[id].lastValue]_vars

(* A request with two slots carrying the same id has returned, the two slots
   hold different values, and lastValue is the second one. *)
C8Witness ==
    /\ ~crashed
    /\ 1 \in DOMAIN variables
    /\ Len(SlotsOf(steps)) = 2
    /\ SlotsOf(steps)[1].type_id = 1
    /\ SlotsOf(steps)[2].type_id = 1
    /\ SlotsOf(steps)[1].value # SlotsOf(steps)[2].value
    /\ variables[1].lastValue = SlotsOf(steps)[2].value
    /\ steps[Len(steps)].op = "start"

(* the declared values of a set domain, as values of the domain's type *)
DeclaredValues(info) ==
    {IF info.type = "int64" THEN IntValue(info.candidates.values[i])
     ELSE IF info.type = "double" THEN DoubleValue(info.candidates.values[i])
     ELSE StringValue(info.candidates.values[i]) :
       i \in DOMAIN info.candidates.values}

(* C9 as stated: whatever the request of an open context sampled for a
   tuning variable declared with a set domain (int64, double or string) is
   one of the declared values. *)
C9SetSamplesAreDeclaredValues ==
    \A id \in DOMAIN variables :
       (/\ variables[id].output
        /\ variables[id].info.valueQuantity = "set"
        /\ BoundBy(id) # {}
        /\ variables[id].lastValue.t # "indeterminate")
       => variables[id].lastValue \in DeclaredValues(variables[id].info)

(* an int64 range [1,6], step 1, both ends closed, of a category for which
   makeSpace computes the effective bounds *)
IsClosedIntRange16(v) ==
    /\ v.output
    /\ v.info.type = "int64"
    /\ v.info.valueQuantity = "range"
    /\ v.info.category \in {"interval", "ratio"}
    /\ v.info.candidates = RangeCandidates(1, 6, 1, FALSE, FALSE)

(* C10 as stated: a Variable declared with the int64 range [1,6], step 1,
   closed, has effective bounds 1 and 6, a request for it returns, and the
   value it sampled lies in 1..6. *)
C10IntRangeSampledWithinBounds ==
    [][(/\ 1 \in DOMAIN variables
        /\ IsClosedIntRange16(variables[1])
        /\ 1 \in DOMAIN contexts)
       => /\ variables[1].lmin = <<1>>
          /\ variables[1].lmax = <<6>>
          /\ ~crashed'
          /\ (1 \in DOMAIN variables' /\ variables'[1].lastValue.t = "int64")
                => variables'[1].lastValue.n \in 1..6]_vars

(* a tuning variable declared with a double range of a category for which
   makeSpace computes the effective bounds, sampled by an open context *)
SampledDoubleRange(id) ==
    /\ variables[id].output
    /\ variables[id].info.type = "double"
    /\ variables[id].info.valueQuantity = "range"
    /\ variables[id].info.category \in {"interval", "ratio"}
    /\ variables[id].lastValue.t = "double"
    /\ BoundBy(id) # {}

(* C11 as stated: every value sampled for a double range lies between the
   effective bounds. *)
C11DoubleRangeWithinEffectiveBounds ==
    \A id \in DOMAIN variables :
       SampledDoubleRange(id) =>
          /\ variables[id].dmin[1] <= variables[id].lastValue.n
          /\ variables[id].lastValue.n <= variables[id].dmax[1]

(* C11 amended: when the effective bounds are in order (effectiveMin <=
   effectiveMax), every value sampled for a double range lies between them,
   and a bound that was declared open is not the value. *)
C11DoubleRangeWithinOrderedBounds ==
    \A id \in DOMAIN variables :
       (SampledDoubleRange(id) /\ variables[id].dmin[1] <= variables[id].dmax[1]) =>
          LET rng == variables[id].info.candidates.range[1]
              v == variables[id].lastValue.n
          IN /\ variables[id].dmin[1] <= v
             /\ v <= variables[id].dmax[1]
             /\ rng.openLower => v # rng.lower
             /\ rng.openUpper => v # rng.upper

(* The range (0.8, 1.2) with step 0.01, open at both ends, was sampled at its
   effective lower bound 0.81. *)
C11Witness ==
    \E id \in DOMAIN variables :
       /\ SampledDoubleRange(id)
       /\ variables[id].info.candidates = RangeCandidates(80, 120, 1, TRUE, TRUE)
       /\ variables[id].lastValue = DoubleValue(81)

(* a tuning variable with a range of numbers *)
NumericRange(v) ==
    /\ v.output
    /\ v.info.valueQuantity = "range"
    /\ v.info.type \in {"int64", "double"}

(* the effective bounds and step that makeSpace left in v: those of the
   Variable's type, <<>> where it left none *)
EffectiveMin(v) == IF v.info.type = "double" THEN v.dmin ELSE v.lmin
EffectiveMax(v) == IF v.info.type = "double" THEN v.dmax ELSE v.lmax
EffectiveStep(v) == IF v.info.type = "double" THEN v.dstep ELSE v.lstep

(* the bounds the claim gives for a declared range *)
ShiftedBounds(v, rng) ==
    /\ EffectiveMin(v) = <<IF rng.openLower THEN rng.lower + rng.step ELSE rng.lower>>
    /\ EffectiveMax(v) = <<IF rng.openUpper THEN rng.upper - rng.step ELSE rng.upper>>
    /\ EffectiveStep(v) = <<rng.step>>
    /\ (~rng.openLower /\ ~rng.openUpper) =>
          /\ EffectiveMin(v) = <<rng.lower>>
          /\ EffectiveMax(v) = <<rng.upper>>
    /\ (rng.openLower /\ rng.step = 1) => EffectiveMin(v) = <<rng.lower + 1>>

(* the ranges the host declares, by type *)
DeclaredRanges(type) ==
    {c.range[1] : c \in CandidatesOf(type, "range")}

(* C12 as stated: for a range domain, of whatever category, makeSpace leaves
   effectiveMin = lower (+ step when the lower end is open) and effectiveMax
   = upper (- step when the upper end is open). *)
C12RangeBoundsShiftedByStep ==
    \A id \in DOMAIN variables :
       NumericRange(variables[id]) =>
          \E rng \in DeclaredRanges(variables[id].info.type) :
             ShiftedBounds(variables[id], rng)

(* C12 amended: that holds for a range of category interval or ratio, where
   the range is the one that was declared; for a range of category
   categorical or ordinal makeSpace leaves no bounds at all. *)
C12RangeBoundsShiftedForIntervalRatio ==
    \A id \in DOMAIN variables :
       NumericRange(variables[id]) =>
          IF variables[id].info.category \in {"interval", "ratio"}
          THEN /\ variables[id].info.candidates.range # <<>>
               /\ ShiftedBounds(variables[id], variables[id].info.candidates.range[1])
          ELSE /\ EffectiveMin(variables[id]) = <<>>
               /\ EffectiveMax(variables[id]) = <<>>
               /\ EffectiveStep(variables[id]) = <<>>

(* An int64 range (1, 6] with step 1, open below, of category ratio, is
   registered with effectiveMin 2 and effectiveMax 6. *)
C12Witness ==
    \E id \in DOMAIN variables :
       /\ NumericRange(variables[id])
       /\ variables[id].info.category = "ratio"
       /\ variables[id].info.candidates = RangeCandidates(1, 6, 1, TRUE, FALSE)
       /\ variables[id].lmin = <<2>>
       /\ variables[id].lmax = <<6>>

(* the names the host declares tuning variables and inputs with in the
   protocol runs *)
DeclaredName(v) == IF v.output THEN <<"D">> ELSE <<"k">>

(* C13: reportBest writes nothing for a Variable declared as input, and for
   one declared as output exactly one line "Best random value for variable
   <name>: <bestValue>" with the declared name and the bestValue it holds,
   scored or not. *)
C13ReportBestOneLinePerOutput ==
    \A id \in DOMAIN variables :
       LET v == variables[id]
           lines == reportBest(v)
       IN /\ v.name = DeclaredName(v)
          /\ IF ~v.output
             THEN lines = <<>>
             ELSE /\ Len(lines) = 1
                  /\ lines[1].op = "Best random value for variable"
                  /\ lines[1].name = DeclaredName(v)
                  /\ lines[1].value = v.bestValue
                  /\ v.best_time = INT_MAX => lines[1].value = Indeterminate

(* An input and an output that was scored are registered. *)
C13Witness ==
    /\ DOMAIN variables = {1, 2}
    /\ ~variables[1].output
    /\ variables[2].output
    /\ variables[2].best_time < INT_MAX
    /\ variables[2].bestValue.t = "int64"

(* the lines of a report that are the warning, and that are best-value
   lines *)
Warnings(report) == {i \in DOMAIN report : report[i].op = "No variables tuned!"}
BestLines(report) ==
    {i \in DOMAIN report : report[i].op = "Best random value for variable"}

(* what kokkosp_finalize_library would write now is the warning alone when
   the registry is empty, and else no warning and one best-value line per
   registered output Variable, none for an input *)
FinalReportAsClaimed ==
    IF DOMAIN variables = {}
    THEN /\ Cardinality(Warnings(FinalReport)) = 1
         /\ BestLines(FinalReport) = {}
    ELSE /\ Warnings(FinalReport) = {}
         /\ \A id \in DOMAIN variables :
               Cardinality({i \in BestLines(FinalReport) : FinalReport[i].id = id})
                  = IF variables[id].output THEN 1 ELSE 0
         /\ \A i \in BestLines(FinalReport) : FinalReport[i].id \in DOMAIN variables

(* C14: kokkosp_finalize_library writes the warning and no best-value line
   exactly when no variable was ever declared (the registry starts empty, a
   declaration registers its id, and no call of a live process takes an id
   out, so that is when the registry is empty), and else no warning and one
   best-value line per registered output Variable. *)
C14FinalizeWarnsIffNothingDeclared ==
    /\ [](~crashed => FinalReportAsClaimed)
    /\ [][/\ ~crashed' => DOMAIN variables \subseteq DOMAIN variables'
          /\ \A id \in VarIds : Redeclared(id) => id \in DOMAIN variables']_vars

(* An input and a tuning variable are registered: the report is the banner
   and one best-value line. *)
C14Witness ==
    /\ ~crashed
    /\ DOMAIN variables = {1, 2}
    /\ ~variables[1].output
    /\ variables[2].output
    /\ Len(FinalReport) = 2
    /\ FinalReport[2].id = 2

(* the whole run was one declaration of a tuning variable and one context,
   which requested a value for it and has just been ended: two objects were
   allocated, the registry holds the Variable, no context is left, and the
   last call scored the Variable and erased the context *)
SingleContextRun(id) ==
    /\ ~crashed
    /\ heap = 2
    /\ DOMAIN variables = {id}
    /\ variables[id].output
    /\ variables[id].lastValue.t = "int64"
    /\ DOMAIN contexts = {}
    /\ steps # <<>>
    /\ steps[Len(steps)].op = "erase"
    /\ CallsOf(steps, "updateBests", id) # {}

(* C15 as stated: after such a run the best-value line of the final report
   carries the one value the request wrote to the host's slot (which is the
   Variable's lastValue), whatever the value and the elapsed duration. *)
C15SingleContextBestIsItsSample ==
    \A id \in DOMAIN variables :
       SingleContextRun(id) =>
          /\ Len(FinalReport) = 2
          /\ FinalReport[2].id = id
          /\ FinalReport[2].value = variables[id].lastValue

(* C16 as stated: a request for a tuning variable whose domain is unbounded
   does not act on the empty sample space: the process is not killed by it
   and no value is sampled (lastValue stays as it was). *)
C16UnboundedIsNeverSampled ==
    [][(/\ 1 \in DOMAIN variables
        /\ variables[1].output
        /\ variables[1].info.valueQuantity = "unbounded"
        /\ 1 \in DOMAIN contexts)
       => /\ ~crashed'
          /\ 1 \in DOMAIN variables' /\ ~Redeclared(1)
                => variables'[1].lastValue = variables[1].lastValue]_vars

(* the registry is as it was and the process lives *)
ReturnsSilently ==
    /\ ~crashed'
    /\ variables' = variables
    /\ contexts' = contexts

(* the draw of a slot whose lookup fails *)
FailedDraw(trap) == <<[r |-> 0, trap |-> trap, g |-> 0]>>

(* C17: no lookup is checked.  kokkosp_end_context and
   kokkosp_request_values on a context id that is not open, and
   kokkosp_request_values naming a tuning variable id that was never
   declared, go on with the result of the failed find: the call can kill the
   process, and when it returns it has reported nothing (the unknown variable
   id is even recorded in the context and the timer started). *)
C17LookupsAreUndefended ==
    ~crashed =>
       /\ \A c \in CtxIds \ DOMAIN contexts :
             /\ ENABLED (EndContext(c, TRUE) /\ crashed')
             /\ ENABLED (EndContext(c, FALSE) /\ ReturnsSilently
                           /\ steps' = <<Step("erase", c, Indeterminate, 0)>>)
             /\ ENABLED (RequestValues(c, <<>>, <<>>, <<>>, TRUE) /\ crashed')
             /\ ENABLED (RequestValues(c, <<>>, <<>>, <<>>, FALSE) /\ ReturnsSilently
                           /\ steps' = <<Step("start", c, Indeterminate, now)>>)
       /\ \A c \in DOMAIN contexts, id \in VarIds \ DOMAIN variables :
             /\ ENABLED (RequestValues(c, <<>>, <<id>>, FailedDraw(TRUE), FALSE)
                           /\ crashed')
             /\ ENABLED (RequestValues(c, <<>>, <<id>>, FailedDraw(FALSE), FALSE)
                           /\ ~crashed'
                           /\ variables' = variables
                           /\ contexts'[c].outputVariables
                                 = Append(contexts[c].outputVariables, id)
                           /\ contexts'[c].start_time_ = now
                           /\ \A i \in DOMAIN steps' : steps'[i].op # "UnknownId")

(* The process was killed inside kokkosp_end_context. *)
C17Witness ==
    /\ crashed
    /\ Len(steps) = 2
    /\ steps[1].op = "fault"
    /\ steps[2].op = "kokkosp_end_context"

(* C18: declaring an id that is already registered is last write wins.  After
   the step the registry maps the id to the Variable the declaration creates
   (as a tuner: name "D", the tuner's domain and space, output; as a
   description: name "k", no space, not output), with best_time = INT_MAX and
   no last or best value; the registered ids are the same, every other
   Variable is untouched, and nothing fails. *)
C18RedeclareIsLastWriteWins ==
    [][\A id \in DOMAIN variables :
          Redeclared(id) =>
             /\ ~crashed'
             /\ DOMAIN variables' = DOMAIN variables
             /\ \A other \in DOMAIN variables \ {id} :
                   variables'[other] = variables[other]
             /\ variables'[id] =
                   IF variables'[id].output
                   THEN makeSpace(NewVariable(id, <<"D">>, TunerInfo, TRUE))
                   ELSE NewVariable(id, <<"k">>, DescriptionInfo, FALSE)
             /\ variables'[id].best_time = INT_MAX
             /\ variables'[id].lastValue = Indeterminate
             /\ variables'[id].bestValue = Indeterminate]_vars

(* Id 1 was a tuner, sampled in context 1 which is still open, and has just
   been declared again as a description: the sample and the tuner's domain
   are gone from the registry. *)
C18Witness ==
    /\ steps = <<Step("new Variable", 1, Indeterminate, 0)>>
    /\ 1 \in DOMAIN variables
    /\ ~variables[1].output
    /\ variables[1].name = <<"k">>
    /\ 1 \in DOMAIN contexts
    /\ contexts[1].outputVariables = <<1>>
    /\ 1 \in DOMAIN sampledIn[1]
    /\ sampledIn[1][1] \in DeclaredValues(TunerInfo)

(* C19: kokkosp_begin_context(c) on an id that is still open replaces the
   registry entry by a new, empty Context and does nothing else: no Variable
   is scored or changed, no other context is touched, nothing fails, and the
   replaced Context is only dropped.  Scores are given only by the end of a
   registered context, and only to ids in the output list of the Context the
   registry then holds; so nothing is ever scored for the dropped one. *)
C19ReopenStrandsTheOpenContext ==
    [][/\ \A c \in DOMAIN contexts :
             Reopened(c) =>
                /\ ~crashed'
                /\ steps' = <<Step("new Context", c, Indeterminate, 0),
                              Step("leak", c, Indeterminate,
                                   Len(contexts[c].outputVariables))>>
                /\ DOMAIN contexts' = DOMAIN contexts
                /\ contexts'[c] = NewContext(c)
                /\ \A other \in DOMAIN contexts \ {c} :
                      contexts'[other] = contexts[other]
                /\ variables' = variables
       /\ \A id \in VarIds :
             CallsOf(steps', "updateBests", id) # {} =>
                \E c \in DOMAIN contexts :
                   /\ Ended(c)
                   /\ id \in Range(contexts[c].outputVariables)]_vars

(* Context 1 had sampled tuner 1 and was begun again before it was ended:
   the tuner keeps its sample, has no score, and no registered context binds
   it any more. *)
C19Witness ==
    /\ steps = <<Step("new Context", 1, Indeterminate, 0),
                 Step("leak", 1, Indeterminate, 1)>>
    /\ contexts[1] = NewContext(1)
    /\ 1 \in DOMAIN variables
    /\ variables[1].output
    /\ variables[1].lastValue \in DeclaredValues(TunerInfo)
    /\ variables[1].best_time = INT_MAX
    /\ BoundBy(1) = {}

(* C20 as stated: a context that was begun and requested and is not ended
   does not affect what the end of another context records.  When
   kokkosp_end_context(c) improves the best_time of a Variable that c sampled
   and that another, still open context has bound too, the bestValue recorded
   is the value c's own request sampled. *)
C20OpenContextDoesNotAffectOthers ==
    [][\A c \in DOMAIN contexts :
          Ended(c) =>
             \A id \in Range(contexts[c].outputVariables) \cap DOMAIN variables :
                (/\ BoundBy(id) \ {c} # {}
                 /\ id \in DOMAIN sampledIn[c]
                 /\ variables'[id].best_time < variables[id].best_time)
                => variables'[id].bestValue = sampledIn[c][id]]_vars

(* the registry of a process record: everything but what it printed *)
RegistryOf(p) ==
    [variables |-> p.variables, contexts |-> p.contexts, now |-> p.now,
     steps |-> p.steps, heap |-> p.heap, crashed |-> p.crashed]

(* C21: after every call given to both processes, the process with
   KOKKOS_VERBOSE set and the one without it have the same registry (the same
   Variables with their lastValue, bestValue and best_time, the same
   contexts and bindings, the same values in the slots, both alive or both
   dead), hence the same best-value report; the quiet one has written no
   trace line, the verbose one the lines of the callback. *)
C21VerbosityGatesOnlyTraceLines ==
    (pending = <<>> /\ twin # <<>>) =>
       /\ RegistryOf(Process) = RegistryOf(twin)
       /\ LET quiet == IF verbose THEN twin.out ELSE out
              loud == IF verbose THEN out ELSE twin.out
          IN /\ quiet = <<>>
             /\ loud # <<>> =>
                  SlotsOf(steps) = [i \in 1..(Len(loud) - 1) |->
                                      [type_id |-> loud[i + 1].id,
                                       value |-> loud[i + 1].value]]

(* Both processes were asked for a value of tuner 1 and sampled the same
   declared value; only the verbose one printed "Setting D to ...". *)
C21Witness ==
    /\ verbose
    /\ pending = <<>>
    /\ twin # <<>>
    /\ Len(out) = 2
    /\ out[2].op = "Setting"
    /\ out[2].id = 1
    /\ out[2].value \in DeclaredValues(TunerInfo)
    /\ variables[1].lastValue = out[2].value
    /\ twin.variables[1].lastValue = out[2].value
    /\ twin.out = <<>>

(* C22 as stated: a Variable registered by kokkosp_declare_input_type is
   never sampled (no request of a registered context writes its lastValue),
   never scored (its best_time stays INT_MAX) and has no line in the final
   report. *)
C22InputVariableIsNeverSampledOrScored ==
    \A id \in DOMAIN variables :
       ~variables[id].output =>
          /\ BoundBy(id) # {} => variables[id].lastValue = Indeterminate
          /\ variables[id].best_time = INT_MAX
          /\ \A i \in DOMAIN FinalReport : FinalReport[i].id # id

(* the quotient total / count *)
IsMean(m, total, count) == m.num * count = total * m.den

(* A getBin step joins the first bin that Matches the value, which then
   holds one value more (count, total, mean, min and max follow, the name
   stays), and leaves every other bin alone; when no bin Matches, one bin
   seeded with the value is appended and nothing else changes.  The name
   returned is the name of that one bin. *)
JoinsFirstOrSeeds(Matches(_, _)) ==
    (steps' # <<>> /\ steps'[1].op = "getBin") =>
       LET value == steps'[1].value.n
           returned == steps'[2].value.s
           bins == variables[1].bins
           after == variables'[1].bins
           hits == {i \in DOMAIN bins : Matches(bins[i], value)}
       IN IF hits = {}
          THEN /\ Len(after) = Len(bins) + 1
               /\ \A j \in DOMAIN bins : after[j] = bins[j]
               /\ LET b == after[Len(after)]
                  IN /\ b.count = 1
                     /\ b.total = value /\ b.min = value /\ b.max = value
                     /\ IsMean(b.mean, value, 1)
                     /\ returned = b.name
          ELSE LET i == CHOOSE k \in hits : \A j \in hits : k <= j
               IN /\ Len(after) = Len(bins)
                  /\ \A j \in DOMAIN bins \ {i} : after[j] = bins[j]
                  /\ after[i].count = bins[i].count + 1
                  /\ after[i].total = bins[i].total + value
                  /\ IsMean(after[i].mean, after[i].total, after[i].count)
                  /\ after[i].min = Min(bins[i].min, value)
                  /\ after[i].max = IF value > bins[i].max THEN value ELSE bins[i].max
                  /\ after[i].name = bins[i].name
                  /\ returned = bins[i].name

(* the bin's range contains value, or the bin's mean is within 25% of value:
   0.75 * value <= mean <= 1.25 * value *)
MeanWithinQuarterOfValue(b, value) ==
    \/ b.min <= value /\ value <= b.max
    \/ /\ 75 * value * b.count <= 100 * b.total
       /\ 100 * b.total <= 125 * value * b.count

(* the bin's range contains value, or value is within 25% of the bin's mean:
   0.75 * mean <= value <= 1.25 * mean *)
ValueWithinQuarterOfMean(b, value) ==
    \/ b.min <= value /\ value <= b.max
    \/ /\ 75 * b.total <= 100 * value * b.count
       /\ 100 * value * b.count <= 125 * b.total

(* C23 as stated: getBin joins the first bin, in creation order, whose range
   contains value or whose mean satisfies 0.75*value <= mean <= 1.25*value,
   and seeds one new bin only when there is none: one bin is updated or
   created per call. *)
C23GetBinJoinsFirstBinNearValue ==
    [][JoinsFirstOrSeeds(MeanWithinQuarterOfValue)]_vars

(* C23, amended: the tolerance is taken around the bin's mean, not around the
   value: getBin joins the first bin, in creation order, whose range contains
   value or for which 0.75*mean <= value <= 1.25*mean, and seeds one new bin
   only when there is none: one bin is updated or created per call. *)
C23GetBinJoinsFirstBinNearMean ==
    [][JoinsFirstOrSeeds(ValueWithinQuarterOfMean)]_vars

(* 1.0 seeded bin_0; 1.3 is more than 25% above that mean and seeded bin_1;
   then 1.0 came again and joined bin_0, the first of the two bins that
   contain it (it is within 25% of bin_1's mean as well). *)
C23Witness ==
    /\ Len(variables[1].bins) = 2
    /\ variables[1].bins[1].count = 2
    /\ variables[1].bins[1].total = 200
    /\ variables[1].bins[2].count = 1
    /\ variables[1].bins[2].total = 130
    /\ contains(variables[1].bins[2], 100)
    /\ steps = <<Step("getBin", 1, DoubleValue(100), 0),
                 Step("return", 1, StringValue(<<"b", "i", "n", "_", "0">>), 0)>>

(* C24: the bin list is append-only and named in sequence: the bin at
   position i (from 0) is named bin_i, so names are pairwise distinct; a
   getBin call never shortens the list, and every bin that was there stays
   at its position with its name and at least the values it held. *)
C24BinsAppendOnlyNamedInSequence ==
    /\ [](\A i \in DOMAIN variables[1].bins :
            /\ variables[1].bins[i].name = <<"b", "i", "n", "_">> \o to_string_int(i - 1)
            /\ \A j \in DOMAIN variables[1].bins :
                  j # i => variables[1].bins[j].name # variables[1].bins[i].name)
    /\ [][/\ Len(variables'[1].bins) >= Len(variables[1].bins)
          /\ \A i \in DOMAIN variables[1].bins :
                /\ variables'[1].bins[i].name = variables[1].bins[i].name
                /\ variables'[1].bins[i].count >= variables[1].bins[i].count]_vars

(* Four values, none near another, made bin_0 .. bin_3. *)
C24Witness ==
    /\ Len(variables[1].bins) = 4
    /\ variables[1].bins[4].name = <<"b", "i", "n", "_", "3">>
    /\ variables[1].bins[1].name = <<"b", "i", "n", "_", "0">>

(* C25 as stated, with MaxLoop calls for the driver's 300: when the loop is
   done every one of the three smoothers has been invoked MaxLoop / 3
   times. *)
C25EachSmootherInvokedEquallyOften ==
    host.pc = "done" =>
       \A k \in 1..Implementations : host.invoked[k] * Implementations = MaxLoop

(* C25, amended: every call of fastest_of invokes exactly one smoother, the
   one whose index the tuner sampled for that call (one of 0, 1, 2), so the
   three counts add up to the number of calls; how often each one runs is
   left to rand(). *)
C25FastestOfInvokesTheSampledSmoother ==
    /\ [][host'.pc = "smootherDeclare" /\ host.pc = "invoke" =>
            /\ host'.index = variables[TunerId].lastValue.n
            /\ host'.index \in 0..(Implementations - 1)
            /\ host'.invoked = [host.invoked EXCEPT ![host'.index + 1] = @ + 1]]_<<vars, aux>>
    /\ [](host.pc \in {"tuner", "done"} =>
            host.invoked[1] + host.invoked[2] + host.invoked[3] = host.i)

(* The loop is done and the first smoother was sampled every time. *)
C25Witness ==
    /\ host.pc = "done"
    /\ host.invoked = <<MaxLoop, 0, 0>>

(* C26: in the nested driver the smoother's context is begun and requested
   after fastest_of's request and ended before fastest_of's end; whatever
   the clock read at those four points, the duration scored to the outer
   context's Variables is at least the duration scored to the inner
   context's. *)
C26OuterScoreAtLeastInnerScore ==
    /\ [](host # <<>> /\ host.i > 0 /\ host.pc \in {"tuner", "done"} =>
            host.outerScore >= host.innerScore)
    /\ [][host # <<>> /\ host.pc = "end" /\ host'.pc # "end" =>
            /\ CallsOf(steps', "updateBests", TunerId) # {}
            /\ \A j \in CallsOf(steps', "updateBests", TunerId) :
                  /\ steps'[j].n = host'.outerScore
                  /\ steps'[j].n >= host.innerScore]_<<vars, aux>>

(* The clock moved between the outer request and the smoother's request and
   again while the smoother ran: the outer score is strictly larger. *)
C26Witness ==
    /\ host.pc \in {"tuner", "done"}
    /\ host.i = 1
    /\ host.innerScore = INT_MAX - 1
    /\ host.outerScore = INT_MAX

(* what makeSpace builds in a Variable: the enumerated space and the
   effective bounds and steps *)
Built(v) ==
    [space |-> v.space, dmin |-> v.dmin, dmax |-> v.dmax, dstep |-> v.dstep,
     lmin |-> v.lmin, lmax |-> v.lmax, lstep |-> v.lstep]

(* the declarations of the interface a registered tuning variable can come
   from *)
DeclarationsOf(v) == {info \in AllInfos : deepCopy(info) = v.info}

(* what a tuning variable declared like v, but with category cat, gets *)
BuiltAs(v, info, cat) ==
    Built(makeSpace(NewVariable(v.id, v.name, [info EXCEPT !.category = cat], TRUE)))

(* C27 as stated: what makeSpace builds for a tuning variable depends on the
   quantity kind, the value type and the candidates only: declared with any
   other category it would have got the same; a range of numbers has its
   effective bounds and a set its enumerated space. *)
C27SampleSpaceIndependentOfCategory ==
    \A id \in DOMAIN variables :
       variables[id].output =>
          \A info \in DeclarationsOf(variables[id]) :
             /\ \A cat \in Categories :
                   BuiltAs(variables[id], info, cat) = Built(variables[id])
             /\ (info.valueQuantity = "range" /\ info.type \in {"int64", "double"}) =>
                   /\ EffectiveMin(variables[id]) # <<>>
                   /\ EffectiveMax(variables[id]) # <<>>
             /\ info.valueQuantity = "set" =>
                   Len(variables[id].space) = Len(info.candidates.values)

(* C27, amended: that holds for a set (and for an unbounded domain, which
   gets nothing) in each of the four categories.  A range of numbers gets
   its effective bounds only when the category is interval or ratio;
   declared categorical or ordinal it gets neither bounds nor a space. *)
C27SetSpaceIndependentOfCategory ==
    \A id \in DOMAIN variables :
       variables[id].output =>
          \A info \in DeclarationsOf(variables[id]) :
             /\ info.valueQuantity # "range" =>
                   \A cat \in Categories :
                      BuiltAs(variables[id], info, cat) = Built(variables[id])
             /\ info.valueQuantity = "set" =>
                   /\ Len(variables[id].space) = Len(info.candidates.values)
                   /\ Len(variables[id].space) > 0
             /\ (info.valueQuantity = "range" /\ info.type \in {"int64", "double"}) =>
                   /\ variables[id].space = <<>>
                   /\ EffectiveMin(variables[id]) # <<>>
                         <=> info.category \in {"interval", "ratio"}
                   /\ EffectiveMax(variables[id]) # <<>>
                         <=> info.category \in {"interval", "ratio"}

(* A set of strings declared with category ratio got the space a categorical
   set gets. *)
C27Witness ==
    \E id \in DOMAIN variables :
       /\ variables[id].output
       /\ variables[id].info = VariableInfo("string", "ratio", "set", SetCandidates(StringSet))
       /\ variables[id].space = StringSet
       /\ Built(variables[id]) =
             BuiltAs(variables[id], variables[id].info, "categorical")

(* the number a string written by std::to_string(double) stands for, in
   hundredths: sign, digits, ".", decimals *)
RECURSIVE dotAt(_, _)
dotAt(s, i) == IF i > Len(s) \/ s[i] = "." THEN i ELSE dotAt(s, i + 1)

DecimalValue(s) ==
    LET neg == s # <<>> /\ s[1] = "-"
        from == IF neg THEN 2 ELSE 1
        p == dotAt(s, from)
        whole == digitsValue(s, from, 0)
        frac == IF p + 2 <= Len(s)
                THEN DigitOf(s[p + 1]) * 10 + DigitOf(s[p + 2])
                ELSE 0
    IN IF neg THEN -(whole * 100 + frac) ELSE whole * 100 + frac

(* the value an entry of the space stands for *)
Decoded(type, entry) ==
    IF type = "int64" THEN atol(entry)
    ELSE IF type = "double" THEN DecimalValue(entry)
    ELSE entry

(* C28: a tuning variable declared once with a set of N values has a sample
   space of exactly N entries, and entry i stands for declared value i: the
   declaration order is kept and so is every repeated value. *)
C28SetSpaceIsTheDeclaredValuesInOrder ==
    \A id \in DOMAIN variables :
       (variables[id].output /\ variables[id].info.valueQuantity = "set") =>
          LET declared == variables[id].info.candidates.values
              space == variables[id].space
          IN /\ Len(space) = Len(declared)
             /\ \A i \in DOMAIN declared :
                   Decoded(variables[id].info.type, space[i]) = declared[i]

(* The set 12, 12, -5 of an ordinal int64 became "12", "12", "-5". *)
C28Witness ==
    /\ 1 \in DOMAIN variables
    /\ variables[1].info = VariableInfo("int64", "ordinal", "set", SetCandidates(<<12, 12, -5>>))
    /\ variables[1].space = <<<<"1", "2">>, <<"1", "2">>, <<"-", "5">>>>

(* C29 as stated: a context binds ids and starts its timer at most once.  A
   kokkosp_request_values on a context that has bound ids already leaves its
   id lists and its start time as they are, and kokkosp_end_context scores
   each bound Variable once. *)
C29ContextBindsAndStartsOnce ==
    [][\A c \in DOMAIN contexts :
          /\ (Requested(c) /\ contexts[c].outputVariables # <<>>) =>
                /\ contexts'[c].inputVariables = contexts[c].inputVariables
                /\ contexts'[c].outputVariables = contexts[c].outputVariables
                /\ contexts'[c].start_time_ = contexts[c].start_time_
          /\ Ended(c) =>
                \A id \in DOMAIN variables :
                   Cardinality(CallsOf(steps', "updateBests", id)) <= 1]_vars

(* C30: when every kokkosp_end_context runs as one step (the host
   serializes its calls), best_time is never overwritten by a larger
   duration, and between two callbacks best_time and bestValue were last
   written by the end of the same context.  Without the serialization both
   can fail: C30Witness. *)
C30SerializedEndsNeverRaiseOrMix ==
    (threads # <<>> /\ threads.serial) =>
       /\ ~threads.raised
       /\ AllIdle => threads.timeBy = threads.valueBy

(* two unserialized ends of contexts 1 and 2 have both returned; one wrote
   a larger duration over the other's smaller one, and bestValue was last
   written by the other end than best_time *)
C30Witness ==
    /\ AllIdle
    /\ ~crashed
    /\ ~threads.serial
    /\ contexts = <<>>
    /\ threads.raised
    /\ threads.timeBy # threads.valueBy
    /\ threads.timeBy # 0
    /\ threads.valueBy # 0

(* C31 as stated, for main's explicit loop: the smoother's context is
   closed while the loop's own context is still open, no context is open
   when an iteration has finished or when finalize runs, and by then the
   variable "meta smoother: implementation" has been scored as often as it
   was requested. *)
C31EveryContextClosedBeforeFinalize ==
    /\ host.inner \in DOMAIN contexts => host.outer \in DOMAIN contexts
    /\ (host.pc \in {"begin", "finalize", "done"}) =>
          /\ contexts = <<>>
          /\ host.i > 0 => variables[ExplicitId].best_time < INT_MAX

(* C32: no declare, begin, request, end or finalize call reaches getBin: in
   every state of the protocol every registered Variable's bin list is
   empty. *)
C32BinListsStayEmpty ==
    \A id \in DOMAIN variables : variables[id].bins = <<>>

(* a context was just ended and scored an output Variable that a request
   had sampled; its bin list is empty *)
C32Witness ==
    /\ ~crashed
    /\ \E c \in 1..MaxHeap : steps # <<>> /\ steps[Len(steps)] = Step("erase", c, Indeterminate, 0)
    /\ \E id \in DOMAIN variables :
          /\ CallsOf(steps, "updateBests", id) # {}
          /\ variables[id].lastValue # Indeterminate
          /\ variables[id].best_time < INT_MAX
          /\ variables[id].bins = <<>>

(* a value of the description's type that the declared candidates allow: a
   member of the set, a point between the bounds of the range that is not
   on an open bound, anything of the type when unbounded *)
InDeclaredDomain(value, info) ==
    /\ value.t = info.type
    /\ IF info.valueQuantity = "set" THEN value \in DeclaredValues(info)
       ELSE IF info.valueQuantity = "range" /\ info.type # "string"
       THEN LET r == info.candidates.range[1]
            IN /\ IF r.openLower THEN r.lower < value.n ELSE r.lower <= value.n
               /\ IF r.openUpper THEN value.n < r.upper ELSE value.n <= r.upper
       ELSE TRUE

(* C33 as stated: an output Variable whose best_time is below its initial
   value holds as bestValue one of the values the requests sampled for it,
   and that value lies inside the domain it was declared with. *)
C33BestValueIsSampledAndInDomain ==
    \A id \in DOMAIN variables :
       (variables[id].output /\ variables[id].best_time < INT_MAX) =>
          /\ variables[id].bestValue \in host.sampled
          /\ InDeclaredDomain(variables[id].bestValue, host.declared[1])

(* the input ids a request was given, in the order of its array *)
InputsOf(log) ==
    LET idx == {i \in DOMAIN log : log[i].op = "addInputVariables"}
    IN [n \in 1..Cardinality(idx) |->
          log[CHOOSE j \in idx : log[j].n = n].id]

(* C34: kokkosp_request_values appends the input ids it was given to the
   context's input list, in order and whether they are declared or not; no
   request with input ids nobody declared fails; and the request leaves
   best_time and bestValue of every Variable as they were, and lastValue
   of every Variable that is not in one of its output slots. *)
C34InputIdsRecordedVerbatimWithoutEffect ==
    /\ [](~crashed)
    /\ [][\A c \in DOMAIN contexts :
            Requested(c) =>
               /\ contexts'[c].inputVariables =
                     contexts[c].inputVariables \o InputsOf(steps')
               /\ DOMAIN variables' = DOMAIN variables
               /\ \A id \in DOMAIN variables :
                     /\ variables'[id].best_time = variables[id].best_time
                     /\ variables'[id].bestValue = variables[id].bestValue
                     /\ CallsOf(steps', "assignNewValue", id) = {} =>
                           variables'[id] = variables[id]]_vars

(* a request bound the undeclared id 3 and then the tuner's id 1 as inputs
   and no output: the process lives and the tuner was neither sampled nor
   scored *)
C34Witness ==
    /\ ~crashed
    /\ steps # <<>>
    /\ steps[Len(steps)].op = "start"
    /\ InputsOf(steps) = <<3, 1>>
    /\ CallsOf(steps, "assignNewValue", 1) = {}
    /\ 3 \notin DOMAIN variables
    /\ 1 \in DOMAIN variables
    /\ variables[1].lastValue = Indeterminate
    /\ variables[1].best_time = INT_MAX
    /\ \E c \in DOMAIN contexts : contexts[c].inputVariables = <<3, 1>>

(* what the constructor and makeSpace give a Variable and no later call
   changes *)
SameObject(v, w) ==
    /\ v.id = w.id /\ v.name = w.name /\ v.output = w.output
    /\ v.info = w.info /\ v.space = w.space
    /\ v.dmin = w.dmin /\ v.dmax = w.dmax /\ v.dstep = w.dstep
    /\ v.lmin = w.lmin /\ v.lmax = w.lmax /\ v.lstep = w.lstep

(* C35: in a live process no step takes an id out of the variables map; an
   id is added, or the object registered under it replaced, only by a
   declare call; begin, request, end and finalize leave every registered
   Variable the object it was. *)
C35RegisteredIdsOnlyGrow ==
    [][~crashed' =>
         /\ DOMAIN variables \subseteq DOMAIN variables'
         /\ \A id \in DOMAIN variables' \ DOMAIN variables : Redeclared(id)
         /\ \A id \in DOMAIN variables :
               ~Redeclared(id) => SameObject(variables[id], variables'[id])
         /\ (\A id \in DOMAIN variables' : ~Redeclared(id)) =>
               Cardinality(DOMAIN variables') = Cardinality(DOMAIN variables)]_vars

(* two ids are registered, a context that bound one of them was just ended
   and scored it, none is open: both ids are still registered *)
C35Witness ==
    /\ ~crashed
    /\ contexts = <<>>
    /\ Cardinality(DOMAIN variables) = 2
    /\ steps # <<>>
    /\ steps[Len(steps)].op = "erase"
    /\ \E id \in DOMAIN variables :
          /\ CallsOf(steps, "updateBests", id) # {}
          /\ variables[id].best_time < INT_MAX

(* C36: over a run of fastest_of calls with count = Implementations each
   label's tuner is declared at most once, and a call that has returned
   began one context and ended it (none is left open), and ran exactly one
   implementation: the one the tuner named when the slot came back with an
   index 0 .. count - 1, and else the one the flipper named at entry, the
   flipper then being one further modulo count. *)
C36FastestOfRunsOneImplementationInOneContext ==
    /\ \A label \in Labels : host.declared[label] <= 1
    /\ host.begun <= 1 /\ host.ended <= host.begun /\ Len(host.invoked) <= 1
    /\ (host.pc = "idle" /\ host.calls > 0) =>
          /\ host.begun = 1 /\ host.ended = 1
          /\ contexts = <<>>
          /\ IF host.which_kernel \in 0..(Implementations - 1)
             THEN /\ host.invoked = <<host.which_kernel>>
                  /\ host.flipper = host.entered
             ELSE /\ host.invoked = <<host.entered>>
                  /\ host.flipper = (host.entered + 1) % Implementations

(* no tool is loaded: the third call has returned, it found the slot at -1
   and the flipper at 2, ran the last implementation and wrapped the
   flipper to 0; both labels were declared once *)
C36Witness ==
    /\ ~host.tool
    /\ host.pc = "idle"
    /\ host.calls = 3
    /\ host.which_kernel = -1
    /\ host.entered = 2
    /\ host.invoked = <<2>>
    /\ host.flipper = 0
    /\ \A label \in Labels : host.declared[label] = 1

(* the tool is loaded: a call has returned after the tuner named
   implementation 1, which ran; the flipper was not used *)
C36WitnessTuned ==
    /\ host.tool
    /\ host.pc = "idle"
    /\ host.calls > 0
    /\ host.which_kernel = 1
    /\ host.invoked = <<1>>
    /\ host.flipper = 0
    /\ contexts = <<>>
    /\ variables[host.var_id].best_time < INT_MAX

(* the sum of a sequence of numbers, exact *)
RECURSIVE SumOf(_)
SumOf(values) ==
    IF values = <<>> THEN 0 ELSE Head(values) + SumOf(Tail(values))

(* the sum as Bin::add accumulates it: rounded after every addition *)
RECURSIVE RunningSum(_)
RunningSum(values) ==
    IF Len(values) = 1 THEN values[1]
    ELSE Round(RunningSum(SubSeq(values, 1, Len(values) - 1)) + values[Len(values)], 1)

(* C37 as stated: every bin has count >= 1, min <= mean <= max and total
   equal to the sum of the values that joined it, and the counts of the
   bins add up to the number of getBin calls. *)
C37BinStatisticsAreExact ==
    /\ Len(variables[1].bins) = Len(host.joined)
    /\ \A i \in DOMAIN variables[1].bins :
          LET b == variables[1].bins[i]
          IN /\ b.count >= 1
             /\ b.min <= b.mean /\ b.mean <= b.max
             /\ b.total = SumOf(host.joined[i])
    /\ Classified(variables[1].bins) = host.calls

(* C37, amended: every bin has count >= 1, the number of values that joined
   it; min and max are the least and the greatest of them; total is their
   sum as rounded after every addition and mean is total / count rounded;
   min <= mean <= max when no addition was rounded; and the counts of the
   bins add up to the number of getBin calls. *)
C37BinStatisticsUpToRounding ==
    /\ Len(variables[1].bins) = Len(host.joined)
    /\ \A i \in DOMAIN variables[1].bins :
          LET b == variables[1].bins[i]
              values == host.joined[i]
          IN /\ b.count >= 1
             /\ b.count = Len(values)
             /\ b.min \in Range(values) /\ \A j \in DOMAIN values : b.min <= values[j]
             /\ b.max \in Range(values) /\ \A j \in DOMAIN values : values[j] <= b.max
             /\ b.total = RunningSum(values)
             /\ b.mean = Round(b.total, b.count)
             /\ b.total = SumOf(values) => (b.min <= b.mean /\ b.mean <= b.max)
    /\ Classified(variables[1].bins) = host.calls

(* 7.0 came three times: the sum 21 is rounded to 20 and the mean 20 / 3 to
   6.5, below the bin's min and max of 7.0 *)
C37Witness ==
    /\ host.calls = 3
    /\ host.joined = <<<<28, 28, 28>>>>
    /\ variables[1].bins[1].count = 3
    /\ variables[1].bins[1].min = 28
    /\ variables[1].bins[1].max = 28
    /\ variables[1].bins[1].total = 80
    /\ variables[1].bins[1].mean = 26

(* min, min + step, min + 2 * step, ... up to the largest such value that is
   not above max, for step > 0 *)
RECURSIVE Series(_, _, _)
Series(min, max, step) ==
    IF min > max THEN <<>> ELSE <<min>> \o Series(min + step, max, step)

(* C38 as stated: for step > 0 makeRange returns, and what it returns is
   the series min, min + step, ... up to max (a series the memory holds);
   for step <= 0 and min <= max it never returns. *)
C38MakeRangeReturnsTheSeries ==
    /\ (host.step > 0 /\ Len(Series(host.min, host.max, host.step)) <= Capacity)
          ~> (host.pc = "returned")
    /\ [](host.pc = "returned" /\ host.step > 0 =>
             host.range = Series(host.min, host.max, host.step))
    /\ [](host.step <= 0 /\ host.min <= host.max => host.pc # "returned")

====
